---- MODULE Spec2Model ----
(***************************************************************************)
(* Model of the zust state engine: path utilities (engine/pathUtils.ts),   *)
(* the store engine with its module-level batch queue, the history         *)
(* manager, and the setDeep facade (engine/index.ts).                      *)
(*                                                                         *)
(* A JavaScript string is a sequence of symbols; "." is the separator      *)
(* symbol.  Objects and arrays live in a heap (a sequence of nodes), so    *)
(* that reference identity (Object.is), aliasing and in-place mutation     *)
(* are represented.                                                        *)
(***************************************************************************)
EXTENDS Integers, Sequences, FiniteSets, TLC

(***************************************************************************)
(* Bounds of the model                                                     *)
(***************************************************************************)
MaxOps ==
  2

MaxNum ==
  9

(***************************************************************************)
(* JavaScript values                                                       *)
(***************************************************************************)
Undef ==
  [t |-> "undef", v |-> 0]

Null ==
  [t |-> "null", v |-> 0]

NaNVal ==
  [t |-> "nan", v |-> 0]

Num(n) ==
  [t |-> "num", v |-> n]

Ref(a) ==
  [t |-> "ref", v |-> a]

IsRef(x) ==
  x.t = "ref"

IsNullish(x) ==
  x.t \in {"undef", "null"}

ObjectIs(a, b) ==
  a = b

EmptyFields ==
  <<>>

ObjNode(fields) ==
  [k |-> "obj", f |-> fields, e |-> <<>>]

ArrNode(elems) ==
  [k |-> "arr", f |-> EmptyFields, e |-> elems]

\* Address of Object.prototype in every heap.
ProtoAddr ==
  1

IsArray(h, x) ==
  IsRef(x) /\ h[x.v].k = "arr"

IsObjectType(x) ==
  \* typeof x === "object" for a non-null value
  IsRef(x)

(***************************************************************************)
(* Strings: sequences of symbols                                           *)
(***************************************************************************)
Dot ==
  "."

Digits ==
  {"0", "1", "2", "3", "4", "5", "6", "7", "8", "9"}

DigitVal(c) ==
  CASE c = "0" -> 0 [] c = "1" -> 1 [] c = "2" -> 2 [] c = "3" -> 3
    [] c = "4" -> 4 [] c = "5" -> 5 [] c = "6" -> 6 [] c = "7" -> 7
    [] c = "8" -> 8 [] c = "9" -> 9

RECURSIVE SplitFrom(_, _, _)
SplitFrom(s, i, acc) ==
  \* String.prototype.split("."): acc is the segment being read
  IF i > Len(s) THEN <<acc>>
  ELSE IF s[i] = Dot THEN <<acc>> \o SplitFrom(s, i + 1, <<>>)
  ELSE SplitFrom(s, i + 1, Append(acc, s[i]))

Split(s) ==
  SplitFrom(s, 1, <<>>)

RECURSIVE JoinFrom(_, _)
JoinFrom(parts, i) ==
  IF i > Len(parts) THEN <<>>
  ELSE IF i = Len(parts) THEN parts[i]
  ELSE parts[i] \o <<Dot>> \o JoinFrom(parts, i + 1)

Join(parts) ==
  JoinFrom(parts, 1)

RECURSIVE DigitsPrefix(_, _, _)
DigitsPrefix(s, i, acc) ==
  IF i > Len(s) \/ s[i] \notin Digits THEN acc
  ELSE DigitsPrefix(s, i + 1, acc * 10 + DigitVal(s[i]))

ParseInt(s) ==
  \* parseInt(s, 10): the leading digits of s, NaN when there are none
  IF Len(s) = 0 \/ s[1] \notin Digits
  THEN [nan |-> TRUE, n |-> 0]
  ELSE [nan |-> FALSE, n |-> DigitsPrefix(s, 1, 0)]

IsPrefixSeq(a, b) ==
  Len(a) <= Len(b) /\ SubSeq(b, 1, Len(a)) = a

(***************************************************************************)
(* pathUtils.ts: validation and the module-level parse cache               *)
(***************************************************************************)
PROTO ==
  <<"__proto__">>

CONSTRUCTOR ==
  <<"constructor">>

PROTOTYPE ==
  <<"prototype">>

DANGEROUS_PROPS ==
  {PROTO, CONSTRUCTOR, PROTOTYPE}

MAX_CACHE_SIZE ==
  1000

ValidatePathSegmentNoGuard(segment) ==
  \* mutant: the prototype-pollution guard is missing
  segment # <<>>

ValidatePathSegment(segment) ==
  \* TRUE when validatePathSegment returns without throwing
  segment # <<>> /\ segment \notin DANGEROUS_PROPS

CacheHas(cache, path) ==
  \E i \in 1..Len(cache) : cache[i].key = path

CacheIdx(cache, path) ==
  CHOOSE i \in 1..Len(cache) : cache[i].key = path

CacheGet(cache, path) ==
  cache[CacheIdx(cache, path)].parts

CacheSet(cache, path, parts) ==
  \* Map.prototype.set: keeps the position of an existing key
  IF CacheHas(cache, path)
  THEN [cache EXCEPT ![CacheIdx(cache, path)].parts = parts]
  ELSE Append(cache, [key |-> path, parts |-> parts])

CachePop(cache, path) ==
  \* parts.pop() on the array object that the cache entry holds
  LET p == CacheGet(cache, path)
  IN IF Len(p) = 0 THEN cache
     ELSE CacheSet(cache, path, SubSeq(p, 1, Len(p) - 1))

ParsePath(cache, path) ==
  \* returns the cache after the call; the array returned to the caller is
  \* the array object stored in the cache under path
  IF path = <<>> THEN [threw |-> TRUE, cache |-> cache]
  ELSE IF CacheHas(cache, path) THEN [threw |-> FALSE, cache |-> cache]
  ELSE LET parts == Split(path)
       IN IF \E i \in 1..Len(parts) : ~ValidatePathSegment(parts[i])
          THEN [threw |-> TRUE, cache |-> cache]
          ELSE LET evicted == IF Len(cache) >= MAX_CACHE_SIZE
                              THEN Tail(cache) ELSE cache
               IN [threw |-> FALSE,
                   cache |-> CacheSet(evicted, path, parts)]

(***************************************************************************)
(* Heap access                                                             *)
(***************************************************************************)
HasOwn(h, a, key) ==
  key \in DOMAIN h[a].f

PropIn(h, a, key) ==
  \* the `in` operator on an object: own and inherited properties
  \/ HasOwn(h, a, key)
  \/ a # ProtoAddr /\ (key = PROTO \/ HasOwn(h, ProtoAddr, key))

PropGet(h, a, key) ==
  \* current[part] on an object
  IF HasOwn(h, a, key) THEN h[a].f[key]
  ELSE IF a # ProtoAddr /\ key = PROTO THEN Ref(ProtoAddr)
  ELSE IF a # ProtoAddr /\ HasOwn(h, ProtoAddr, key) THEN h[ProtoAddr].f[key]
  ELSE Undef

PropSet(h, a, key, val) ==
  \* current[key] = val; assigning a primitive to __proto__ is ignored
  IF key = PROTO THEN h
  ELSE [h EXCEPT ![a].f = (key :> val) @@ h[a].f]

ElemGet(h, a, index) ==
  IF index >= 0 /\ index < Len(h[a].e) THEN h[a].e[index + 1] ELSE Undef

RECURSIVE PadTo(_, _)
PadTo(elems, index) ==
  \* while (current.length <= index) current.push(undefined)
  IF Len(elems) <= index THEN PadTo(Append(elems, Undef), index) ELSE elems

ElemSetDropsOthers(h, a, index, val) ==
  \* mutant: the other slots of the array are reset
  [h EXCEPT ![a].e = [i \in 1..Len(PadTo(h[a].e, index)) |->
                        IF i = index + 1 THEN val ELSE Undef]]

ElemSet(h, a, index, val) ==
  [h EXCEPT ![a].e = [PadTo(h[a].e, index) EXCEPT ![index + 1] = val]]

Alloc(h, node) ==
  Append(h, node)

(***************************************************************************)
(* Reading a state by a list of segments, as the specification describes   *)
(* path addressing: own properties of objects, integer indices of arrays   *)
(***************************************************************************)
RECURSIVE ValueAt(_, _, _, _)
ValueAt(h, v, segs, i) ==
  IF i > Len(segs) THEN v
  ELSE IF ~IsRef(v) THEN Undef
  ELSE IF h[v.v].k = "arr"
       THEN IF segs[i] # <<>> /\ \A j \in 1..Len(segs[i]) : segs[i][j] \in Digits
            THEN ValueAt(h, ElemGet(h, v.v, DigitsPrefix(segs[i], 1, 0)),
                         segs, i + 1)
            ELSE Undef
  ELSE IF segs[i] \in DOMAIN h[v.v].f
       THEN ValueAt(h, h[v.v].f[segs[i]], segs, i + 1)
  ELSE Undef

At(h, v, path) ==
  ValueAt(h, v, Split(path), 1)

(***************************************************************************)
(* pathUtils.ts: getNestedValue                                            *)
(***************************************************************************)
RECURSIVE GetWalk(_, _, _, _)
GetWalk(h, cur, parts, i) ==
  IF i > Len(parts) THEN [threw |-> FALSE, val |-> cur]
  ELSE IF IsNullish(cur) THEN [threw |-> FALSE, val |-> Undef]
  ELSE IF IsArray(h, cur)
       THEN LET index == ParseInt(parts[i])
            IN IF index.nan THEN [threw |-> TRUE, val |-> Undef]
               ELSE IF index.n < 0 \/ index.n >= Len(h[cur.v].e)
                    THEN [threw |-> FALSE, val |-> Undef]
                    ELSE GetWalk(h, h[cur.v].e[index.n + 1], parts, i + 1)
  ELSE IF IsObjectType(cur)
       THEN GetWalk(h, PropGet(h, cur.v, parts[i]), parts, i + 1)
  ELSE [threw |-> FALSE, val |-> Undef]

GetNestedValue(h, cache, obj, path) ==
  IF path = <<>> THEN [threw |-> FALSE, val |-> obj, cache |-> cache]
  ELSE LET pp == ParsePath(cache, path)
       IN IF pp.threw THEN [threw |-> TRUE, val |-> Undef, cache |-> cache]
          ELSE LET r == GetWalk(h, obj, CacheGet(pp.cache, path), 1)
               IN [threw |-> r.threw, val |-> r.val, cache |-> pp.cache]

(***************************************************************************)
(* pathUtils.ts: setNestedValue                                            *)
(***************************************************************************)
Fail(h) ==
  [threw |-> TRUE, h |-> h, cur |-> Undef]

NextIsIndexFinalToo(parts, lastPart, i) ==
  \* mutant: the popped final segment is consulted for the last container
  LET all == Append(parts, lastPart)
  IN ~ParseInt(all[i + 1]).nan

NextIsIndex(parts, lastPart, i) ==
  \* nextPart = parts[i + 1] read from the array after parts.pop();
  \* parseInt(undefined) is NaN
  i + 1 <= Len(parts) /\ ~ParseInt(parts[i + 1]).nan

RECURSIVE SetNav(_, _, _, _, _)
SetNav(h, cur, parts, lastPart, i) ==
  IF i > Len(parts) THEN [threw |-> FALSE, h |-> h, cur |-> cur]
  ELSE
    LET part == parts[i]
        fresh == IF NextIsIndex(parts, lastPart, i)
                 THEN ArrNode(<<>>) ELSE ObjNode(EmptyFields)
        newAddr == Len(h) + 1
    IN IF part = <<>> THEN Fail(h)
       ELSE IF IsArray(h, cur)
       THEN LET index == ParseInt(part)
            IN IF index.nan THEN Fail(h)
               ELSE LET h1 == [h EXCEPT ![cur.v].e = PadTo(@, index.n)]
                        el == h1[cur.v].e[index.n + 1]
                    IN IF IsNullish(el)
                       THEN SetNav(Alloc(ElemSet(h1, cur.v, index.n,
                                                 Ref(newAddr)), fresh),
                                   Ref(newAddr), parts, lastPart, i + 1)
                       ELSE SetNav(h1, el, parts, lastPart, i + 1)
       ELSE IF ~IsRef(cur)
       THEN Fail(h)   \* TypeError: `in` applied to a primitive
       ELSE IF \/ ~PropIn(h, cur.v, part)
               \/ IsNullish(PropGet(h, cur.v, part))
            THEN SetNav(Alloc(PropSet(h, cur.v, part, Ref(newAddr)), fresh),
                        Ref(newAddr), parts, lastPart, i + 1)
            ELSE SetNav(h, PropGet(h, cur.v, part), parts, lastPart, i + 1)

SetFinal(h, cur, lastPart, value) ==
  IF IsArray(h, cur)
  THEN LET index == ParseInt(lastPart)
       IN IF index.nan THEN [threw |-> TRUE, h |-> h]
          ELSE [threw |-> FALSE, h |-> ElemSet(h, cur.v, index.n, value)]
  ELSE IF ~IsRef(cur)
  THEN [threw |-> TRUE, h |-> h]   \* TypeError: property set on a primitive
  ELSE [threw |-> FALSE, h |-> PropSet(h, cur.v, lastPart, value)]

SetNestedValue(h, cache, obj, path, value) ==
  IF path = <<>> THEN [threw |-> TRUE, h |-> h, cache |-> cache]
  ELSE
    LET pp == ParsePath(cache, path)
    IN IF pp.threw THEN [threw |-> TRUE, h |-> h, cache |-> cache]
       ELSE
         LET parts == CacheGet(pp.cache, path)
         IN IF Len(parts) = 1
            THEN IF parts[1] = <<>>
                 THEN [threw |-> TRUE, h |-> h, cache |-> pp.cache]
                 ELSE [threw |-> FALSE,
                       h |-> PropSet(h, obj.v, parts[1], value),
                       cache |-> pp.cache]
            ELSE IF Len(parts) = 0
            THEN \* parts.pop() returned undefined
                 [threw |-> TRUE, h |-> h, cache |-> pp.cache]
            ELSE
              LET lastPart == parts[Len(parts)]
                  popped == CachePop(pp.cache, path)
                  nav == SetNav(h, obj, CacheGet(popped, path), lastPart, 1)
              IN IF lastPart = <<>> \/ nav.threw
                 THEN [threw |-> TRUE, h |-> h, cache |-> popped]
                 ELSE LET fin == SetFinal(nav.h, nav.cur, lastPart, value)
                      IN [threw |-> fin.threw,
                          h |-> IF fin.threw THEN h ELSE fin.h,
                          cache |-> popped]

(***************************************************************************)
(* pathUtils.ts: deleteNestedValue                                         *)
(***************************************************************************)
PropDelete(h, a, key) ==
  \* delete current[key]: removes an own property, if there is one
  [h EXCEPT ![a].f = [k \in DOMAIN h[a].f \ {key} |-> h[a].f[k]]]

Splice(h, a, index) ==
  \* current.splice(index, 1)
  [h EXCEPT ![a].e = [j \in 1..(Len(h[a].e) - 1) |->
                        IF j <= index THEN h[a].e[j] ELSE h[a].e[j + 1]]]

RECURSIVE DelNav(_, _, _, _)
DelNav(h, cur, parts, i) ==
  \* the loop that navigates to the parent
  IF i > Len(parts) THEN [ok |-> TRUE, cur |-> cur]
  ELSE IF IsNullish(cur) THEN [ok |-> FALSE, cur |-> cur]
  ELSE IF IsArray(h, cur)
       THEN LET index == ParseInt(parts[i])
            IN IF index.nan \/ index.n < 0 \/ index.n >= Len(h[cur.v].e)
               THEN [ok |-> FALSE, cur |-> cur]
               ELSE DelNav(h, h[cur.v].e[index.n + 1], parts, i + 1)
  ELSE IF IsObjectType(cur)
       THEN IF ~PropIn(h, cur.v, parts[i]) THEN [ok |-> FALSE, cur |-> cur]
            ELSE DelNav(h, PropGet(h, cur.v, parts[i]), parts, i + 1)
  ELSE [ok |-> FALSE, cur |-> cur]

DeleteNestedValue(h, cache, obj, path) ==
  \* deleted is the boolean returned; parts.pop() acts on the cached array
  IF path = <<>>
  THEN [threw |-> FALSE, deleted |-> FALSE, h |-> h, cache |-> cache]
  ELSE
    LET pp == ParsePath(cache, path)
    IN IF pp.threw
       THEN [threw |-> TRUE, deleted |-> FALSE, h |-> h, cache |-> cache]
       ELSE
         LET parts == CacheGet(pp.cache, path)
             popped == CachePop(pp.cache, path)
             no == [threw |-> FALSE, deleted |-> FALSE, h |-> h,
                    cache |-> popped]
         IN IF Len(parts) = 0 THEN no
            ELSE
              LET lastPart == parts[Len(parts)]
                  nav == DelNav(h, obj, CacheGet(popped, path), 1)
              IN IF lastPart = <<>> \/ ~nav.ok THEN no
                 ELSE IF IsArray(h, nav.cur)
                 THEN LET index == ParseInt(lastPart)
                      IN IF \/ index.nan
                            \/ index.n < 0
                            \/ index.n >= Len(h[nav.cur.v].e)
                         THEN no
                         ELSE [no EXCEPT
                                 !.deleted = TRUE,
                                 !.h = Splice(h, nav.cur.v, index.n)]
                 ELSE IF IsRef(nav.cur)
                 THEN \* `delete` returns true also when the key is absent
                      [no EXCEPT !.deleted = TRUE,
                                 !.h = PropDelete(h, nav.cur.v, lastPart)]
                 ELSE no

(***************************************************************************)
(* structuredClone and deep equality                                       *)
(***************************************************************************)
Children(h, a) ==
  {h[a].f[key].v : key \in {x \in DOMAIN h[a].f : IsRef(h[a].f[x])}}
    \cup {h[a].e[i].v : i \in {j \in 1..Len(h[a].e) : IsRef(h[a].e[j])}}

RECURSIVE ReachFrom(_, _, _)
ReachFrom(h, frontier, seen) ==
  IF frontier = {} THEN seen
  ELSE LET next == (UNION {Children(h, a) : a \in frontier}) \ seen
       IN ReachFrom(h, next, seen \cup next)

Reach(h, a) ==
  ReachFrom(h, {a}, {a})

StructuredClone(h, root) ==
  \* deep copy of everything reachable from root; every copied object is a
  \* new heap node
  LET R == Reach(h, root.v)
      base == Len(h)
      NewAddr(x) == base + Cardinality({y \in R : y <= x})
      Remap(val) == IF IsRef(val) THEN Ref(NewAddr(val.v)) ELSE val
      CopyNode(n) == [k |-> n.k,
                      f |-> [key \in DOMAIN n.f |-> Remap(n.f[key])],
                      e |-> [i \in 1..Len(n.e) |-> Remap(n.e[i])]]
      Nth(i) == CHOOSE x \in R : NewAddr(x) = base + i
  IN [h |-> h \o [i \in 1..Cardinality(R) |-> CopyNode(h[Nth(i)])],
      root |-> Remap(root)]

RECURSIVE DeepEq(_, _, _, _)
DeepEq(h1, a, h2, b) ==
  IF IsRef(a) /\ IsRef(b)
  THEN LET n == h1[a.v]
           m == h2[b.v]
       IN /\ n.k = m.k
          /\ DOMAIN n.f = DOMAIN m.f
          /\ Len(n.e) = Len(m.e)
          /\ \A key \in DOMAIN n.f : DeepEq(h1, n.f[key], h2, m.f[key])
          /\ \A i \in 1..Len(n.e) : DeepEq(h1, n.e[i], h2, m.e[i])
  ELSE a = b

JsonClone(h, root) ==
  \* JSON.parse(JSON.stringify(root)): undefined properties are dropped,
  \* undefined and NaN array elements become null
  LET R == Reach(h, root.v)
      base == Len(h)
      NewAddr(x) == base + Cardinality({y \in R : y <= x})
      Remap(val) == IF IsRef(val) THEN Ref(NewAddr(val.v)) ELSE val
      InArr(val) == IF val.t \in {"undef", "nan"} THEN Null ELSE Remap(val)
      Kept(n) == {key \in DOMAIN n.f : n.f[key].t # "undef"}
      CopyNode(n) ==
        IF n.k = "arr"
        THEN ArrNode([i \in 1..Len(n.e) |-> InArr(n.e[i])])
        ELSE ObjNode([key \in Kept(n) |->
                        IF n.f[key].t = "nan" THEN Null ELSE Remap(n.f[key])])
      Nth(i) == CHOOSE x \in R : NewAddr(x) = base + i
  IN [h |-> h \o [i \in 1..Cardinality(R) |-> CopyNode(h[Nth(i)])],
      root |-> Remap(root)]

(***************************************************************************)
(* createStore.ts: getPathValue, used by path subscriptions                *)
(***************************************************************************)
RECURSIVE PathWalk(_, _, _, _)
PathWalk(h, cur, parts, i) ==
  IF i > Len(parts) THEN cur
  ELSE IF IsNullish(cur) THEN Undef
  ELSE IF IsArray(h, cur)
       THEN LET index == ParseInt(parts[i])
            IN IF index.nan \/ index.n < 0 \/ index.n >= Len(h[cur.v].e)
               THEN Undef
               ELSE PathWalk(h, h[cur.v].e[index.n + 1], parts, i + 1)
  ELSE IF IsObjectType(cur)
       THEN PathWalk(h, PropGet(h, cur.v, parts[i]), parts, i + 1)
  ELSE Undef

GetPathValue(h, obj, path) ==
  IF path = <<>> THEN obj ELSE PathWalk(h, obj, Split(path), 1)

(***************************************************************************)
(* Inputs                                                                  *)
(***************************************************************************)
P_empty ==
  <<>>

P_counter ==
  <<"counter">>

P_user_name ==
  <<"user", ".", "name">>

P_user_age ==
  <<"user", ".", "age">>

P_items_0_x ==
  <<"items", ".", "0", ".", "x">>

P_items_2_x ==
  <<"items", ".", "2", ".", "x">>

P_items_k ==
  <<"items", ".", "k">>

P_counter_k ==
  <<"counter", ".", "k">>

P_list_0 ==
  <<"list", ".", "0">>

P_proto_polluted ==
  <<"__proto__", ".", "polluted">>

P_user_proto ==
  <<"user", ".", "__proto__">>

P_user_ctor_k ==
  <<"user", ".", "constructor", ".", "k">>

P_prototype ==
  <<"prototype">>

P_polluted ==
  <<"polluted">>

ForbiddenPaths ==
  {P_empty, P_proto_polluted, P_user_proto, P_user_ctor_k, P_prototype}

ActValue(v) ==
  [kind |-> "value", v |-> v]

ActInc ==
  [kind |-> "inc", v |-> Undef]

ActThrow ==
  [kind |-> "throw", v |-> Undef]

Str ==
  [t |-> "str", v |-> 0]

ResolveAction(act, currentValue) ==
  \* typeof action === "function" ? action(currentValue) : action
  \* "inc" is the updater prev => prev + 1, "throw" an updater that throws
  CASE act.kind = "value" -> [threw |-> FALSE, val |-> act.v]
    [] act.kind = "throw" -> [threw |-> TRUE, val |-> Undef]
    [] act.kind = "inc" ->
         [threw |-> FALSE,
          val |-> CASE currentValue.t = "num" -> Num(currentValue.v + 1)
                    [] currentValue.t = "null" -> Num(1)
                    [] currentValue.t \in {"undef", "nan"} -> NaNVal
                    [] OTHER -> Str]

(***************************************************************************)
(* State                                                                   *)
(***************************************************************************)
VARIABLES
  heap,            \* every object and array ever created
  pathCache,       \* pathUtils.ts pathCache, in insertion order
  state,           \* createStoreEngine: let state
  listeners,       \* createStoreEngine: Set of global listeners, in order
  pathListeners,   \* createStoreEngine: Map path -> Set, as <<path, set>>
  cbSets,          \* the Set objects created by subscribePath
  closures,        \* the unsubscribe functions handed out so far
  batchQueue,      \* module-level batch queue
  batchStack,      \* wasBatching of every batch() call that is executing
  past,            \* HistoryManager.past
  future,          \* HistoryManager.future
  currentState,    \* HistoryManager.currentState
  lastCaptureTime, \* HistoryManager.lastCaptureTime
  pendingCapture,  \* HistoryManager.pendingCapture timer
  persistTimer,    \* createStore: persistTimer
  storage,         \* the storage backend: field -> stored JSON value
  flushTimers,     \* outstanding setTimeout(flushBatchQueue, 0) timers
  now,             \* Date.now()
  calls,           \* listener invocations made by the latest step
  lastOp,          \* the latest operation and its outcome
  nOps,            \* number of state-changing operations performed
  nSubs,           \* number of subscribe and unsubscribe calls performed
  sinceFlush,      \* history variable: what was queued since the last flush
  cfg,             \* store options and the inputs offered to the store
  computedMap,     \* ComputedEngine: the entry of the computed value
  facade,          \* createStore: cachedEnhancedStore and lastRawState
  trail,           \* history variable: what the calls made so far have done
  inflight,        \* dispatch: the async actions awaiting their next step
  loading          \* createStore: the promise of persister.load()

vars ==
  <<heap, pathCache, state, listeners, pathListeners, cbSets, closures,
    batchQueue, batchStack, past, future, currentState, lastCaptureTime,
    pendingCapture, persistTimer, storage, flushTimers, now, calls, lastOp,
    nOps, nSubs, sinceFlush, cfg, computedMap, facade, trail, inflight,
    loading>>

engineVars ==
  <<state, listeners, pathListeners, cbSets, closures, batchQueue, batchStack,
    flushTimers>>

historyVars ==
  <<past, future, currentState, lastCaptureTime, pendingCapture>>

subscriptionVars ==
  <<listeners, pathListeners, cbSets, closures>>

StartTime ==
  1000

TickMs ==
  50

MaxTicks ==
  3

PERSIST_DEBOUNCE_MS ==
  100

CaptureInterval ==
  100

HistMaxSize ==
  2

NumListeners ==
  2

NumCallbacks ==
  2

MaxSubs ==
  4

NothingQueued ==
  \* scopes: outermost batch scopes entered since the last flush (2 stands
  \* for two or more); loose: a notification was queued outside every scope;
  \* direct: a notification was queued by a direct setState call
  [scopes |-> 0, loose |-> FALSE, direct |-> FALSE]

NoTimer ==
  [on |-> FALSE, due |-> 0, st |-> Undef]

Timer(due, st) ==
  [on |-> TRUE, due |-> due, st |-> st]

RootAddr ==
  2

K(name) ==
  <<name>>

InitHeap ==
  \* Object.prototype, then {user: {name: 1, age: 2}, items: [{x: 1}],
  \* counter: 0}
  << ObjNode(EmptyFields),
     ObjNode((K("user") :> Ref(3)) @@ (K("items") :> Ref(4))
               @@ (K("counter") :> Num(0))),
     ObjNode((K("name") :> Num(1)) @@ (K("age") :> Num(2))),
     ArrNode(<<Ref(5)>>),
     ObjNode(K("x") :> Num(1)) >>

NoOp ==
  [op |-> "init", path |-> <<>>, threw |-> FALSE, prev |-> Ref(RootAddr),
   next |-> Ref(RootAddr), val |-> Undef, flag |-> FALSE, arg |-> ""]

Op(name, path, threw, prev, next, val, flag) ==
  [op |-> name, path |-> path, threw |-> threw, prev |-> prev,
   next |-> next, val |-> val, flag |-> flag, arg |-> ""]

SetDeepOp(path, action, threw, prev, next, val) ==
  [op |-> "setDeep", path |-> path, threw |-> threw, prev |-> prev,
   next |-> next, val |-> val, flag |-> FALSE, arg |-> action.kind]

NoCache ==
  \* a ComputedEntry without cachedValue and lastDeps
  [cachedValue |-> Undef, lastDeps |-> [has |-> FALSE, vals |-> <<>>],
   computeCount |-> 0]

NoTrail ==
  \* states: the canonical state after each successful setDeep, the initial
  \* one first; undone: undo calls not yet redone; regular: no call so far
  \* was made while a capture was pending, and no setDeep after an undo;
  \* branched: a committed capture has discarded a non-empty future;
  \* readAt: the canonical state at the latest read of the computed value;
  \* wrote: time, result, path and value of the latest successful setDeep;
  \* early: the same for the latest one made before hydration;
  \* quiet: destroy() was called and no setDeep has succeeded since
  [states |-> <<Ref(RootAddr)>>, undone |-> 0, regular |-> TRUE,
   branched |-> FALSE, readAt |-> Undef,
   wrote |-> [time |-> 0, state |-> Undef, path |-> <<>>, val |-> Undef],
   early |-> [time |-> 0, state |-> Undef, path |-> <<>>, val |-> Undef],
   quiet |-> FALSE]

\* persister.load(): not started, reading the storage, resolved with the
\* fields read, consumed by the hydration callback
NoLoad ==
  [phase |-> "none", result |-> EmptyFields]

Pending ==
  [phase |-> "reading", result |-> EmptyFields]

InitWith(options) ==
  /\ heap = InitHeap
  /\ pathCache = <<>>
  /\ state = Ref(RootAddr)
  /\ listeners = <<>>
  /\ pathListeners = <<>>
  /\ cbSets = <<>>
  /\ closures = {}
  /\ batchQueue = [updates |-> <<>>, pending |-> FALSE, timeout |-> 0]
  /\ flushTimers = {}
  /\ storage = options.stored
  /\ batchStack = <<>>
  /\ past = <<>>
  /\ future = <<>>
  /\ currentState = Ref(RootAddr)
  /\ lastCaptureTime = 0
  /\ pendingCapture = NoTimer
  /\ persistTimer = NoTimer
  /\ now = StartTime
  /\ calls = <<>>
  /\ lastOp = NoOp
  /\ nOps = 0
  /\ nSubs = 0
  /\ sinceFlush = NothingQueued
  /\ cfg = options
  /\ computedMap = NoCache
  /\ facade = [cachedEnhancedStore |-> Null, lastRawState |-> Null]
  /\ trail = NoTrail
  /\ inflight = <<>>
  /\ loading = IF options.persist THEN Pending ELSE NoLoad

(***************************************************************************)
(* createStoreEngine: notifyListeners and setState                         *)
(***************************************************************************)
GlobalCall(id, newState, prevState) ==
  \* listener(newState, prevState)
  [kind |-> "global", id |-> id, path |-> <<>>, a |-> newState,
   b |-> prevState, full |-> newState]

PathCall(id, path, newValue, oldValue, fullState) ==
  \* callback(newValue, oldValue, newState) of a subscription on path
  [kind |-> "path", id |-> id, path |-> path, a |-> newValue,
   b |-> oldValue, full |-> fullState]

EntryCallsUnconditional(h, prevState, newState, entry) ==
  \* mutant: the callbacks of a path run whether or not its value changed
  LET oldValue == GetPathValue(h, prevState, entry.path)
      newValue == GetPathValue(h, newState, entry.path)
      callbacks == cbSets[entry.set]
  IN [j \in 1..Len(callbacks) |->
        PathCall(callbacks[j], entry.path, newValue, oldValue, newState)]

EntryCalls(h, prevState, newState, entry) ==
  \* the body of pathListeners.forEach
  LET oldValue == GetPathValue(h, prevState, entry.path)
      newValue == GetPathValue(h, newState, entry.path)
      callbacks == cbSets[entry.set]
  IN IF ~ObjectIs(oldValue, newValue)
     THEN [j \in 1..Len(callbacks) |->
             PathCall(callbacks[j], entry.path, newValue, oldValue, newState)]
     ELSE <<>>

RECURSIVE PathCalls(_, _, _, _)
PathCalls(h, prevState, newState, i) ==
  IF i > Len(pathListeners) THEN <<>>
  ELSE EntryCalls(h, prevState, newState, pathListeners[i])
         \o PathCalls(h, prevState, newState, i + 1)

GlobalCalls(prevState, newState) ==
  \* listeners.forEach
  [i \in 1..Len(listeners) |-> GlobalCall(listeners[i], newState, prevState)]

Throws(call) ==
  \* the listener or callback invoked raises an exception
  call.id \in cfg.throwers

InvokedUncaught(attempts) ==
  \* mutant: no try/catch, the first exception ends the notification
  LET bad == {i \in 1..Len(attempts) : Throws(attempts[i])}
      first == CHOOSE i \in bad : \A j \in bad : i <= j
  IN IF bad = {} THEN [calls |-> attempts, threw |-> FALSE]
     ELSE [calls |-> SubSeq(attempts, 1, first), threw |-> TRUE]

Invoked(attempts) ==
  \* try { listener(...) } catch (error) { console.error(...) } around
  \* every invocation: all of them are made, nothing is rethrown
  [calls |-> attempts, threw |-> FALSE]

Attempts(h, prevState, newState) ==
  \* the invocations notifyListeners sets out to make, in order
  GlobalCalls(prevState, newState) \o PathCalls(h, prevState, newState, 1)

NotifyListenersSwapped(h, prevState, newState) ==
  \* mutant: the global listeners receive (prevState, newState)
  GlobalCalls(newState, prevState) \o PathCalls(h, prevState, newState, 1)

NotifyListeners(h, prevState, newState) ==
  Invoked(Attempts(h, prevState, newState)).calls

EngineSetStateEager(h, nextState) ==
  \* mutant: the listeners run at once even while a batch is pending
  IF ObjectIs(state, nextState)
  THEN [state |-> state, bq |-> batchQueue, calls |-> <<>>, threw |-> FALSE]
  ELSE [state |-> nextState, bq |-> batchQueue,
        calls |-> NotifyListeners(h, state, nextState), threw |-> FALSE]

EngineSetState(h, nextState) ==
  \* the part of setState after nextState has been computed
  IF ObjectIs(state, nextState)
  THEN [state |-> state, bq |-> batchQueue, calls |-> <<>>, threw |-> FALSE]
  ELSE IF batchQueue.pending
  THEN [state |-> nextState,
        bq |-> [batchQueue EXCEPT
                  !.updates = Append(@, [prev |-> state, next |-> nextState])],
        calls |-> <<>>, threw |-> FALSE]
  ELSE [state |-> nextState, bq |-> batchQueue,
        calls |-> NotifyListeners(h, state, nextState),
        threw |-> Invoked(Attempts(h, state, nextState)).threw]

(***************************************************************************)
(* HistoryManager: capture and captureImmediate                            *)
(***************************************************************************)
Snapshot(st, timestamp) ==
  [state |-> st, timestamp |-> timestamp]

LimitSizeNever(pushed) ==
  \* mutant: nothing is evicted
  pushed

LimitSize(pushed) ==
  \* if (this.past.length > this.config.maxSize) this.past.shift()
  IF Len(pushed) > cfg.maxSize THEN Tail(pushed) ELSE pushed

CaptureImmediateKeepsFuture(h, st) ==
  \* mutant: the future stack survives a capture
  LET snap == JsonClone(h, st)
      pushed == Append(past, Snapshot(currentState, lastCaptureTime))
  IN [h |-> snap.h,
      past |-> LimitSize(pushed),
      future |-> future,
      currentState |-> snap.root,
      lastCaptureTime |-> now,
      pendingCapture |-> pendingCapture]

CaptureImmediate(h, st) ==
  LET snap == JsonClone(h, st)
      pushed == Append(past, Snapshot(currentState, lastCaptureTime))
  IN [h |-> snap.h,
      past |-> LimitSize(pushed),
      future |-> <<>>,
      currentState |-> snap.root,
      lastCaptureTime |-> now,
      pendingCapture |-> pendingCapture]

HistoryUnchanged(h) ==
  [h |-> h, past |-> past, future |-> future, currentState |-> currentState,
   lastCaptureTime |-> lastCaptureTime, pendingCapture |-> pendingCapture]

CaptureKeepsPending(h, st) ==
  \* mutant: a capture already pending is not replaced
  IF ~cfg.history THEN HistoryUnchanged(h)
  ELSE IF now - lastCaptureTime < cfg.captureInterval
  THEN IF pendingCapture.on THEN HistoryUnchanged(h)
       ELSE [HistoryUnchanged(h) EXCEPT
               !.pendingCapture = Timer(now + cfg.captureInterval, st)]
  ELSE CaptureImmediate(h, st)

Capture(h, st) ==
  \* isRestoring is false whenever setDeep runs: restoreState sets and
  \* clears it within one synchronous call
  IF ~cfg.history THEN HistoryUnchanged(h)
  ELSE IF now - lastCaptureTime < cfg.captureInterval
  THEN [HistoryUnchanged(h) EXCEPT
          !.pendingCapture = Timer(now + cfg.captureInterval, st)]
  ELSE CaptureImmediate(h, st)

(***************************************************************************)
(* createStore: setDeep                                                    *)
(***************************************************************************)
SetDeepThrowsAfterScheduling(path, action, cache) ==
  \* mutant: the persistence save is scheduled before the write is validated
  /\ pathCache' = cache
  /\ lastOp' = SetDeepOp(path, action, TRUE, state, state, Undef)
  /\ calls' = <<>>
  /\ persistTimer' = IF cfg.persist
                     THEN Timer(now + PERSIST_DEBOUNCE_MS, state)
                     ELSE persistTimer
  /\ UNCHANGED <<heap, engineVars, historyVars, storage, sinceFlush,
                 computedMap, trail>>

SetDeepThrows(path, action, cache) ==
  \* the catch block logs and rethrows; only the parse cache may have changed
  /\ pathCache' = cache
  /\ lastOp' = SetDeepOp(path, action, TRUE, state, state, Undef)
  /\ calls' = <<>>
  /\ UNCHANGED <<heap, engineVars, historyVars, persistTimer, storage,
                 sinceFlush, computedMap, trail>>

QueuedBy(es, direct) ==
  IF Len(es.bq.updates) > Len(batchQueue.updates)
  THEN [sinceFlush EXCEPT !.loose = @ \/ batchStack = <<>>,
                          !.direct = @ \/ direct]
  ELSE sinceFlush

PathMatches(pattern, path) ==
  \* pattern === path || path.startsWith(pattern + ".")
  pattern = path \/ IsPrefixSeq(pattern \o <<Dot>>, path)

ShouldInvalidate(changedPath) ==
  \* the computed value is among the keys to invalidate
  \E i \in 1..Len(cfg.deps) : PathMatches(cfg.deps[i], changedPath)

Invalidate(entry) ==
  [entry EXCEPT !.cachedValue = Undef,
                !.lastDeps = [has |-> FALSE, vals |-> <<>>]]

CommitsAtOnce ==
  \* capture() goes straight to captureImmediate
  cfg.history /\ now - lastCaptureTime >= cfg.captureInterval

SchedulePersistOnce(finalState) ==
  \* mutant: a running timer is left alone
  IF cfg.persist /\ ~persistTimer.on
  THEN Timer(now + PERSIST_DEBOUNCE_MS, finalState)
  ELSE persistTimer

SchedulePersist(finalState) ==
  \* if (persistTimer) clearTimeout(persistTimer);
  \* persistTimer = setTimeout(() => persister.save(finalState, persist),
  \*                           PERSIST_DEBOUNCE_MS)
  IF cfg.persist
  THEN Timer(now + PERSIST_DEBOUNCE_MS, finalState)
  ELSE persistTimer

\* A listener in cfg.reactors is (s) => { if (s.counter === 0)
\* setDeep("counter", 1) }: the nested setDeep replaces the state and runs
\* its own listeners.forEach before the listener returns to the forEach
\* that called it.  Stores with reacting listeners have neither history nor
\* persistence nor middleware nor path listeners.
RECURSIVE ListenerLoop(_, _, _, _, _, _)
ListenerLoop(h, cache, cur, prevState, newState, i) ==
  \* listeners.forEach from the i-th listener on, cur being the engine's
  \* state when that listener is called
  IF i > Len(listeners)
  THEN [h |-> h, cache |-> cache, state |-> cur, calls |-> <<>>]
  ELSE
    LET call == GlobalCall(listeners[i], newState, prevState)
        reacts == /\ listeners[i] \in cfg.reactors
                  /\ h[newState.v].f[K("counter")] = Num(0)
        returns == [h |-> h, cache |-> cache, state |-> cur, calls |-> <<>>]
        written(clone, got, set) ==
          IF got.threw \/ set.threw
          THEN [returns EXCEPT
                  !.cache = IF got.threw THEN got.cache ELSE set.cache]
          ELSE ListenerLoop(set.h, set.cache, clone.root, cur, clone.root, 1)
        read(clone, got) ==
          written(clone, got,
                  SetNestedValue(clone.h, got.cache, clone.root, P_counter,
                                 Num(1)))
        setDeep(clone) ==
          read(clone, GetNestedValue(h, cache, cur, P_counter))
        after(nested, rest) ==
          [rest EXCEPT !.calls = <<call>> \o nested.calls \o rest.calls]
        forEach(nested) ==
          after(nested,
                ListenerLoop(nested.h, nested.cache, nested.state, prevState,
                             newState, i + 1))
    IN forEach(IF reacts THEN setDeep(StructuredClone(h, cur)) ELSE returns)

SetDeepApplies(path, action, value, cache, h, finalState) ==
  LET plain == EngineSetState(h, finalState)
      reenters == cfg.reactors # {} /\ plain.calls # <<>>
      loop == ListenerLoop(h, cache, finalState, state, finalState, 1)
      es == IF reenters
            THEN [plain EXCEPT !.state = loop.state, !.calls = loop.calls]
            ELSE plain
      hc == Capture(IF reenters THEN loop.h ELSE h, finalState)
  IN /\ pathCache' = IF reenters THEN loop.cache ELSE cache
     /\ computedMap' = IF ShouldInvalidate(path) THEN Invalidate(computedMap)
                       ELSE computedMap
     /\ trail' = [trail EXCEPT
                    !.states = Append(@, finalState),
                    !.regular = @ /\ ~pendingCapture.on /\ trail.undone = 0,
                    !.branched = @ \/ (CommitsAtOnce /\ future # <<>>),
                    !.wrote = [time |-> now, state |-> finalState,
                              path |-> path, val |-> value],
                    !.quiet = FALSE]
     /\ state' = es.state
     /\ batchQueue' = es.bq
     /\ calls' = es.calls
     /\ sinceFlush' = QueuedBy(es, FALSE)
     /\ persistTimer' = SchedulePersist(finalState)
     /\ heap' = hc.h
     /\ past' = hc.past
     /\ future' = hc.future
     /\ currentState' = hc.currentState
     /\ lastCaptureTime' = hc.lastCaptureTime
     /\ pendingCapture' = hc.pendingCapture
     /\ lastOp' = SetDeepOp(path, action, es.threw, state, finalState, value)
     /\ UNCHANGED <<subscriptionVars, batchStack, flushTimers, storage>>

(***************************************************************************)
(* Middleware: a middleware is (next) => (state) => post(next(pre(state))) *)
(***************************************************************************)
Mw(pre, post) ==
  [pre |-> pre, post |-> post]

\* (next) => (state) => next({...state, counter: state.counter * 2}), the
\* middleware of the store test; "inc" adds one, "limit" is a validating
\* middleware that throws on a counter above 4, "id" passes the state through
LogicKeepsCounter(h, kind, st) ==
  \* mutant: the logic never touches the counter
  [threw |-> FALSE, h |-> h, root |-> st]

Logic(h, kind, st) ==
  LET c == h[st.v].f[K("counter")]
      with(n) == Alloc(h, ObjNode((K("counter") :> Num(n)) @@ h[st.v].f))
  IN CASE kind = "double" ->
            [threw |-> FALSE, h |-> with(c.v * 2), root |-> Ref(Len(h) + 1)]
       [] kind = "inc" ->
            [threw |-> FALSE, h |-> with(c.v + 1), root |-> Ref(Len(h) + 1)]
       [] kind = "limit" ->
            [threw |-> c.v > 4, h |-> h, root |-> st]
       [] OTHER -> [threw |-> FALSE, h |-> h, root |-> st]

\* middlewares.reduce((composed, current) => (next) =>
\*   composed(current(next)), (next) => next): a composed function is the
\* sequence of the middlewares it runs, outermost first, and applying it to
\* a continuation puts that sequence around the continuation
CombineInnermostFirst(middlewares) ==
  \* mutant: the reduction wraps the earlier middlewares in the later ones
  [i \in 1..Len(middlewares) |-> middlewares[Len(middlewares) + 1 - i]]

CombineMiddlewares(middlewares) ==
  LET current(i, next) == <<middlewares[i]>> \o next
      RECURSIVE composed(_, _)
      composed(i, next) ==
        IF i = 0 THEN next ELSE composed(i - 1, current(i, next))
  IN IF Len(middlewares) = 0 THEN <<>>
     ELSE composed(Len(middlewares), <<>>)

\* finalMiddleware((s) => s)(newState)
RECURSIVE RunChain(_, _, _)
RunChain(h, chain, st) ==
  IF chain = <<>> THEN [threw |-> FALSE, h |-> h, root |-> st]
  ELSE LET pre == Logic(h, Head(chain).pre, st)
           inner == RunChain(pre.h, Tail(chain), pre.root)
       IN IF pre.threw THEN pre
          ELSE IF inner.threw THEN inner
          ELSE Logic(inner.h, Head(chain).post, inner.root)

\* createStore: the chain is composed from options.middleware, and plugin
\* initialization then pushes each plugin.middleware onto that array
CreateStore(options) ==
  LET finalMiddleware == CombineMiddlewares(options.middleware)
  IN [options EXCEPT !.chain = finalMiddleware,
                     !.middleware = options.middleware \o options.plugins]


SetDeepReadsStale(path, action) ==
  \* mutant: the previous value is read from the initial state
  /\ nOps < cfg.ops
  /\ nOps' = nOps + 1
  /\ UNCHANGED <<now, nSubs, cfg, loading, facade>>
  /\ LET newState == StructuredClone(heap, state)
         cur == GetNestedValue(heap, pathCache, Ref(RootAddr), path)
         res == ResolveAction(action, cur.val)
         set == SetNestedValue(newState.h, cur.cache, newState.root, path,
                               res.val)
     IN IF cur.threw THEN SetDeepThrows(path, action, cur.cache)
        ELSE IF res.threw THEN SetDeepThrows(path, action, cur.cache)
        ELSE IF set.threw THEN SetDeepThrows(path, action, set.cache)
        ELSE LET finalState == RunChain(set.h, cfg.chain, newState.root)
             IN IF finalState.threw
                THEN SetDeepThrows(path, action, set.cache)
                ELSE /\ res.val.t = "num" => res.val.v <= MaxNum
                     /\ SetDeepApplies(path, action, res.val, set.cache,
                                       finalState.h, finalState.root)

SetDeep(path, action) ==
  /\ nOps < cfg.ops
  /\ nOps' = nOps + 1
  /\ UNCHANGED <<now, nSubs, cfg, loading, facade>>
  /\ LET newState == StructuredClone(heap, state)
         cur == GetNestedValue(heap, pathCache, state, path)
         res == ResolveAction(action, cur.val)
         set == SetNestedValue(newState.h, cur.cache, newState.root, path,
                               res.val)
     IN IF cur.threw THEN SetDeepThrows(path, action, cur.cache)
        ELSE IF res.threw THEN SetDeepThrows(path, action, cur.cache)
        ELSE IF set.threw THEN SetDeepThrows(path, action, set.cache)
        ELSE LET finalState == RunChain(set.h, cfg.chain, newState.root)
             IN IF finalState.threw
                THEN SetDeepThrows(path, action, set.cache)
                ELSE /\ res.val.t = "num" => res.val.v <= MaxNum
                     /\ SetDeepApplies(path, action, res.val, set.cache,
                                       finalState.h, finalState.root)

DoSetDeep ==
  \E path \in cfg.paths, action \in cfg.acts :
    SetDeep(path, action) /\ UNCHANGED inflight

Tick ==
  /\ now < StartTime + MaxTicks * TickMs
  /\ now' = now + TickMs
  /\ calls' = <<>>
  /\ lastOp' = Op("tick", <<>>, FALSE, state, state, Undef, FALSE)
  /\ UNCHANGED <<heap, pathCache, engineVars, historyVars, persistTimer,
                 storage, nOps, nSubs, sinceFlush, cfg, loading, inflight,
                 computedMap, facade, trail>>

(***************************************************************************)
(* Timers of the history manager and of persistence                        *)
(***************************************************************************)
CaptureFire ==
  \* the callback scheduled by capture(): captureImmediate(state), then
  \* pendingCapture = null
  /\ pendingCapture.on
  /\ now >= pendingCapture.due
  /\ batchStack = <<>>
  /\ LET hc == CaptureImmediate(heap, pendingCapture.st)
     IN /\ heap' = hc.h
        /\ past' = hc.past
        /\ future' = hc.future
        /\ currentState' = hc.currentState
        /\ lastCaptureTime' = hc.lastCaptureTime
  /\ pendingCapture' = NoTimer
  /\ calls' = <<>>
  /\ lastOp' = Op("captureFire", <<>>, FALSE, state, state, Undef, FALSE)
  /\ trail' = [trail EXCEPT !.branched = @ \/ future # <<>>]
  /\ UNCHANGED <<pathCache, engineVars, persistTimer, storage, now, nOps,
                 nSubs, sinceFlush, cfg, loading, inflight, computedMap,
                 facade>>

PersistFire ==
  \* the callback scheduled by setDeep: persister.save(finalState, persist)
  \* with persist === true writes every top-level field as JSON
  /\ persistTimer.on
  /\ now >= persistTimer.due
  /\ batchStack = <<>>
  /\ LET snap == JsonClone(heap, persistTimer.st)
     IN /\ heap' = snap.h
        /\ storage' = snap.h[snap.root.v].f @@ storage
  /\ persistTimer' = NoTimer
  /\ calls' = <<>>
  /\ lastOp' = Op("persistFire", <<>>, FALSE, state, state, Undef, FALSE)
  /\ UNCHANGED <<pathCache, engineVars, historyVars, now, nOps, nSubs,
                 sinceFlush, cfg, loading, inflight,
                 computedMap, facade, trail>>

Load ==
  \* load() resolves: every stored field has been read and parsed with
  \* JSON.parse; the result is null when nothing was stored
  /\ loading.phase = "reading"
  /\ LET h1 == Alloc(heap, ObjNode(storage))
         parsed == JsonClone(h1, Ref(Len(h1)))
     IN /\ heap' = parsed.h
        /\ loading' = [phase |-> "loaded",
                       result |-> parsed.h[parsed.root.v].f]
  /\ calls' = <<>>
  /\ lastOp' = Op("load", <<>>, FALSE, state, state, Undef, FALSE)
  /\ UNCHANGED <<pathCache, engineVars, historyVars, persistTimer, storage,
                 now, nOps, nSubs, sinceFlush, cfg, inflight, computedMap,
                 facade, trail>>

Hydrate ==
  \* the callback of load().then: hydratedState = {...currentState,
  \* ...persistedState}; engine.setState(hydratedState, true)
  /\ loading.phase = "loaded"
  /\ loading' = [phase |-> "done", result |-> EmptyFields]
  /\ LET persistedState == loading.result
         h1 == Alloc(heap, ObjNode(persistedState @@ heap[state.v].f))
         hydratedState == Ref(Len(h1))
         es == EngineSetState(h1, hydratedState)
     IN IF persistedState = EmptyFields
        THEN /\ calls' = <<>>
             /\ lastOp' = Op("hydrate", <<>>, FALSE, state, state, Undef,
                             FALSE)
             /\ UNCHANGED <<heap, state, batchQueue, sinceFlush>>
        ELSE /\ heap' = h1
             /\ state' = es.state
             /\ batchQueue' = es.bq
             /\ calls' = es.calls
             /\ sinceFlush' = QueuedBy(es, TRUE)
             /\ lastOp' = Op("hydrate", <<>>, FALSE, state, hydratedState,
                             Undef, TRUE)
  /\ trail' = [trail EXCEPT !.early = trail.wrote]
  /\ UNCHANGED <<pathCache, subscriptionVars, batchStack, flushTimers,
                 historyVars, persistTimer, storage, now, nOps, nSubs, cfg,
                 inflight, computedMap, facade>>

(***************************************************************************)
(* createStoreEngine: setState, subscribe, subscribePath                   *)
(***************************************************************************)
SetState(patch, replace) ==
  \* patch = Undef stands for a partial that is the current state itself
  \* (setState(s => s)); otherwise the partial is a new object
  \* {counter: patch}
  /\ nOps < MaxOps
  /\ nOps' = nOps + 1
  /\ LET same == patch = Undef
         h1 == IF same THEN heap
               ELSE Alloc(heap, ObjNode(K("counter") :> patch))
         nextPartial == IF same THEN state ELSE Ref(Len(h1))
         h2 == IF replace THEN h1
               ELSE Alloc(h1, ObjNode(h1[nextPartial.v].f @@ h1[state.v].f))
         nextState == IF replace THEN nextPartial ELSE Ref(Len(h2))
         es == EngineSetState(h2, nextState)
     IN /\ heap' = h2
        /\ state' = es.state
        /\ batchQueue' = es.bq
        /\ calls' = es.calls
        /\ sinceFlush' = QueuedBy(es, TRUE)
        /\ lastOp' = Op("setState", <<>>, es.threw, state, nextState, patch,
                        replace)
  /\ UNCHANGED <<pathCache, subscriptionVars, batchStack, flushTimers,
                 historyVars, persistTimer, storage, now, nSubs, cfg, loading,
                 inflight, computedMap, facade, trail>>

DoSetState ==
  \E patch \in cfg.patches, replace \in BOOLEAN : SetState(patch, replace)

SeqHas(seq, x) ==
  \E i \in 1..Len(seq) : seq[i] = x

SeqAdd(seq, x) ==
  \* Set.prototype.add: insertion order, no duplicates
  IF SeqHas(seq, x) THEN seq ELSE Append(seq, x)

SeqDelete(seq, x) ==
  \* Set.prototype.delete
  SelectSeq(seq, LAMBDA y : y # x)

GlobalClosure(listener) ==
  [kind |-> "global", id |-> listener, path |-> <<>>, set |-> 0,
   called |-> FALSE]

PathClosure(path, set, callback) ==
  [kind |-> "path", id |-> callback, path |-> path, set |-> set,
   called |-> FALSE]

Subscribe(listener) ==
  /\ listeners' = SeqAdd(listeners, listener)
  /\ closures' = closures \cup {GlobalClosure(listener)}
  /\ calls' = <<>>
  /\ lastOp' = Op("subscribe", <<>>, FALSE, state, state, Num(listener), FALSE)
  /\ nSubs < MaxSubs
  /\ nSubs' = nSubs + 1
  /\ UNCHANGED <<heap, pathCache, state, pathListeners, cbSets, batchQueue,
                 batchStack, flushTimers, historyVars, persistTimer, storage,
                 now, nOps, sinceFlush, cfg, loading, inflight,
                 computedMap, facade, trail>>

MapHas(path) ==
  \E i \in 1..Len(pathListeners) : pathListeners[i].path = path

MapGet(path) ==
  pathListeners[CHOOSE i \in 1..Len(pathListeners) :
                  pathListeners[i].path = path].set

SubscribePath(path, callback) ==
  /\ calls' = <<>>
  /\ nSubs < MaxSubs
  /\ nSubs' = nSubs + 1
  /\ UNCHANGED <<heap, pathCache, state, listeners, batchQueue, batchStack,
                 flushTimers, historyVars, persistTimer, storage, now, nOps,
                 sinceFlush, cfg, loading, inflight,
                 computedMap, facade, trail>>
  /\ IF path = <<>>
     THEN /\ lastOp' = Op("subscribePath", path, TRUE, state, state,
                          Num(callback), FALSE)
          /\ UNCHANGED <<pathListeners, cbSets, closures>>
     ELSE LET fresh == ~MapHas(path)
              set == IF fresh THEN Len(cbSets) + 1 ELSE MapGet(path)
              sets1 == IF fresh THEN Append(cbSets, <<>>) ELSE cbSets
          IN /\ pathListeners' = IF fresh
                                 THEN Append(pathListeners,
                                             [path |-> path, set |-> set])
                                 ELSE pathListeners
             /\ cbSets' = [sets1 EXCEPT ![set] = SeqAdd(@, callback)]
             /\ closures' = closures \cup {PathClosure(path, set, callback)}
             /\ lastOp' = Op("subscribePath", path, FALSE, state, state,
                             Num(callback), FALSE)

Unsubscribe(closure) ==
  \* calling an unsubscribe function returned by subscribe or subscribePath
  /\ closure \in closures
  /\ nSubs < MaxSubs
  /\ nSubs' = nSubs + 1
  /\ closures' = (closures \ {closure}) \cup {[closure EXCEPT !.called = TRUE]}
  /\ IF closure.kind = "global"
     THEN /\ listeners' = SeqDelete(listeners, closure.id)
          /\ UNCHANGED <<pathListeners, cbSets>>
     ELSE LET callbacks == SeqDelete(cbSets[closure.set], closure.id)
          IN /\ cbSets' = [cbSets EXCEPT ![closure.set] = callbacks]
             /\ pathListeners' =
                  IF Len(callbacks) = 0
                  THEN SelectSeq(pathListeners,
                                 LAMBDA e : e.path # closure.path)
                  ELSE pathListeners
             /\ UNCHANGED listeners
  /\ calls' = <<>>
  /\ lastOp' = Op("unsubscribe", closure.path, FALSE, state, state,
                  Num(closure.id), closure.kind = "path")
  /\ UNCHANGED <<heap, pathCache, state, batchQueue, batchStack,
                 flushTimers, historyVars, persistTimer, storage, now, nOps,
                 sinceFlush, cfg, loading, inflight,
                 computedMap, facade, trail>>

DoSubscribe ==
  \E listener \in cfg.listeners : Subscribe(listener)

DoSubscribePath ==
  \E path \in cfg.watch, callback \in cfg.callbacks :
    SubscribePath(path, callback)

DoUnsubscribe ==
  \E closure \in closures : Unsubscribe(closure)

(***************************************************************************)
(* createStore.ts: batch and flushBatchQueue                               *)
(***************************************************************************)
MaxBatchDepth ==
  2

FreshTimer ==
  CHOOSE id \in 1..(Cardinality(flushTimers) + 1) : id \notin flushTimers

BatchEnter ==
  \* batch(callback) up to the call of callback
  /\ Len(batchStack) < MaxBatchDepth
  /\ nOps < MaxOps
  /\ batchStack' = Append(batchStack, batchQueue.pending)
  /\ batchQueue' = [batchQueue EXCEPT !.pending = TRUE]
  /\ calls' = <<>>
  /\ lastOp' = Op("batchEnter", <<>>, FALSE, state, state, Undef,
                  batchQueue.pending)
  /\ sinceFlush' = IF batchStack = <<>>
                   THEN [sinceFlush EXCEPT
                           !.scopes = IF @ >= 2 THEN 2 ELSE @ + 1]
                   ELSE sinceFlush
  /\ UNCHANGED <<heap, pathCache, state, subscriptionVars, flushTimers,
                 historyVars, persistTimer, storage, now, nOps, nSubs, cfg,
                 loading, inflight, computedMap, facade, trail>>

BatchExitAlwaysSchedules(threw) ==
  \* mutant: every exit schedules a flush, whatever wasBatching was
  /\ batchStack # <<>>
  /\ batchStack' = SubSeq(batchStack, 1, Len(batchStack) - 1)
  /\ batchQueue' = [batchQueue EXCEPT !.timeout = FreshTimer]
  /\ flushTimers' = flushTimers \cup {FreshTimer}
  /\ lastOp' = Op("batchExit", <<>>, threw, state, state, Undef,
                  batchStack[Len(batchStack)])
  /\ calls' = <<>>
  /\ UNCHANGED <<heap, pathCache, state, subscriptionVars, historyVars,
                 persistTimer, storage, now, nOps, nSubs, sinceFlush, cfg,
                 loading, inflight, computedMap, facade, trail>>

BatchExit(threw) ==
  \* the finally block of batch(), reached when callback returns or throws
  /\ batchStack # <<>>
  /\ LET wasBatching == batchStack[Len(batchStack)]
     IN /\ batchStack' = SubSeq(batchStack, 1, Len(batchStack) - 1)
        /\ IF ~wasBatching
           THEN /\ batchQueue' = [batchQueue EXCEPT !.timeout = FreshTimer]
                /\ flushTimers' = flushTimers \cup {FreshTimer}
           ELSE UNCHANGED <<batchQueue, flushTimers>>
        /\ lastOp' = Op("batchExit", <<>>, threw, state, state, Undef,
                        wasBatching)
  /\ calls' = <<>>
  /\ UNCHANGED <<heap, pathCache, state, subscriptionVars, historyVars,
                 persistTimer, storage, now, nOps, nSubs, sinceFlush, cfg,
                 loading, inflight, computedMap, facade, trail>>

DoBatchExit ==
  \E threw \in BOOLEAN : BatchExit(threw)

RECURSIVE RunUpdates(_, _, _)
RunUpdates(h, updates, i) ==
  IF i > Len(updates) THEN <<>>
  ELSE NotifyListeners(h, updates[i].prev, updates[i].next)
         \o RunUpdates(h, updates, i + 1)

\* A listener in cfg.batchers is (s) => { if (s.counter !== 9)
\* batch(() => setState({counter: 9})) }: called during a flush it finds the
\* flag cleared, sets it, queues its notification and schedules a timer.
RECURSIVE FlushLoop(_, _, _, _)
FlushLoop(acc, updates, i, j) ==
  \* updates.forEach((update) => update()) from the j-th listener of the
  \* i-th update on
  IF i > Len(updates) THEN acc
  ELSE IF j > Len(listeners)
  THEN FlushLoop([acc EXCEPT
                    !.calls = @ \o PathCalls(acc.h, updates[i].prev,
                                             updates[i].next, 1)],
                 updates, i + 1, 1)
  ELSE
    LET call == GlobalCall(listeners[j], updates[i].next, updates[i].prev)
        reacts == /\ listeners[j] \in cfg.batchers
                  /\ acc.h[updates[i].next.v].f[K("counter")] # Num(9)
        wasBatching == acc.bq.pending
        h1 == Alloc(acc.h, ObjNode(K("counter") :> Num(9)))
        h2 == Alloc(h1, ObjNode(h1[Len(h1)].f @@ h1[acc.state.v].f))
        nextState == Ref(Len(h2))
        timer == CHOOSE id \in 1..(Cardinality(acc.timers) + 1) :
                   id \notin acc.timers
        after ==
          IF ~reacts THEN acc
          ELSE [h |-> h2,
                state |-> nextState,
                bq |-> [updates |-> Append(acc.bq.updates,
                                           [prev |-> acc.state,
                                            next |-> nextState]),
                        pending |-> TRUE,
                        timeout |-> IF wasBatching THEN acc.bq.timeout
                                    ELSE timer],
                timers |-> IF wasBatching THEN acc.timers
                           ELSE acc.timers \cup {timer},
                calls |-> acc.calls]
    IN FlushLoop([after EXCEPT !.calls = Append(acc.calls, call)],
                 updates, i, j + 1)

FlushBatchQueueKeepsFlag(timer) ==
  \* mutant: the flush leaves batchQueue.pending as it was
  /\ timer \in flushTimers
  /\ batchStack = <<>>
  /\ LET start == [h |-> heap, state |-> state,
                   bq |-> [updates |-> <<>>, pending |-> batchQueue.pending,
                           timeout |-> 0],
                   timers |-> (flushTimers \ {timer}) \ {batchQueue.timeout},
                   calls |-> <<>>]
         done == IF cfg.batchers = {}
                 THEN [start EXCEPT
                         !.calls = RunUpdates(heap, batchQueue.updates, 1)]
                 ELSE FlushLoop(start, batchQueue.updates, 1, 1)
     IN /\ heap' = done.h
        /\ state' = done.state
        /\ batchQueue' = done.bq
        /\ flushTimers' = done.timers
        /\ calls' = done.calls
  /\ lastOp' = Op("flush", <<>>, FALSE, state, state, Undef, FALSE)
  /\ sinceFlush' = NothingQueued
  /\ UNCHANGED <<pathCache, subscriptionVars, batchStack, historyVars,
                 persistTimer, storage, now, nOps, nSubs, cfg, loading,
                 inflight, computedMap, facade, trail>>

FlushBatchQueue(timer) ==
  \* a flush timer fires: flushBatchQueue()
  /\ timer \in flushTimers
  /\ batchStack = <<>>
  /\ LET start == [h |-> heap, state |-> state,
                   bq |-> [updates |-> <<>>, pending |-> FALSE,
                           timeout |-> 0],
                   timers |-> (flushTimers \ {timer}) \ {batchQueue.timeout},
                   calls |-> <<>>]
         done == IF cfg.batchers = {}
                 THEN [start EXCEPT
                         !.calls = RunUpdates(heap, batchQueue.updates, 1)]
                 ELSE FlushLoop(start, batchQueue.updates, 1, 1)
     IN /\ heap' = done.h
        /\ state' = done.state
        /\ batchQueue' = done.bq
        /\ flushTimers' = done.timers
        /\ calls' = done.calls
  /\ lastOp' = Op("flush", <<>>, FALSE, state, state, Undef, FALSE)
  /\ sinceFlush' = NothingQueued
  /\ UNCHANGED <<pathCache, subscriptionVars, batchStack, historyVars,
                 persistTimer, storage, now, nOps, nSubs, cfg, loading,
                 inflight, computedMap, facade, trail>>

DoFlush ==
  \E timer \in flushTimers : FlushBatchQueue(timer)

(***************************************************************************)
(* ComputedEngine: get                                                     *)
(***************************************************************************)
MaxComputes ==
  3

RECURSIVE DepValues(_, _, _, _, _)
DepValues(h, cache, st, deps, i) ==
  \* getDependencyValues: a dependency whose lookup throws reads as undefined
  IF i > Len(deps) THEN [vals |-> <<>>, cache |-> cache]
  ELSE LET r == GetNestedValue(h, cache, st, deps[i])
           rest == DepValues(h, r.cache, st, deps, i + 1)
       IN [vals |-> <<IF r.threw THEN Undef ELSE r.val>> \o rest.vals,
           cache |-> rest.cache]

RECURSIVE Access(_, _, _, _)
Access(h, v, segs, i) ==
  \* the expression state.a.b: reading a property of undefined or null
  \* throws, reading one of another primitive gives undefined
  IF i > Len(segs) THEN [threw |-> FALSE, val |-> v]
  ELSE IF IsNullish(v) THEN [threw |-> TRUE, val |-> Undef]
  ELSE Access(h, ValueAt(h, v, <<segs[i]>>, 1), segs, i + 1)

RECURSIVE SumOf(_, _, _, _)
SumOf(h, st, reads, i) ==
  IF i > Len(reads) THEN [threw |-> FALSE, val |-> Num(0)]
  ELSE LET x == Access(h, st, Split(reads[i]), 1)
           rest == SumOf(h, st, reads, i + 1)
       IN IF x.threw \/ rest.threw THEN [threw |-> TRUE, val |-> Undef]
          ELSE [threw |-> FALSE,
                val |-> IF x.val.t = "num" /\ rest.val.t = "num"
                        THEN Num(x.val.v + rest.val.v)
                        ELSE NaNVal]

Compute(h, st) ==
  \* config.compute: the sum of the values the function reads from the
  \* state by property access
  SumOf(h, st, cfg.reads, 1)

ShouldUseCacheLax(entry, current) ==
  \* mutant: the dependency values are not compared
  /\ entry.cachedValue # Undef
  /\ entry.lastDeps.has
  /\ Len(cfg.deps) # 0

ShouldUseCache(entry, current) ==
  \* current: the dependency values read from the state now
  /\ entry.cachedValue # Undef
  /\ entry.lastDeps.has
  /\ Len(cfg.deps) # 0
  /\ Len(current) = Len(entry.lastDeps.vals)
  /\ \A i \in 1..Len(current) : ObjectIs(current[i], entry.lastDeps.vals[i])

ReadComputed ==
  \* computedEngine.get(key), reached through the getter of the store
  /\ computedMap.computeCount < MaxComputes
  /\ LET compared == /\ computedMap.cachedValue # Undef
                     /\ computedMap.lastDeps.has
                     /\ Len(cfg.deps) # 0
         current == DepValues(heap, pathCache, state, cfg.deps, 1)
         cache1 == IF compared THEN current.cache ELSE pathCache
         value == Compute(heap, state)
         after == DepValues(heap, cache1, state, cfg.deps, 1)
     IN IF ShouldUseCache(computedMap, current.vals)
        THEN /\ pathCache' = cache1
             /\ lastOp' = Op("read", <<>>, FALSE, trail.readAt, state,
                             computedMap.cachedValue, FALSE)
             /\ UNCHANGED computedMap
        ELSE IF value.threw
        THEN \* the catch block returns the cached value
             /\ pathCache' = cache1
             /\ lastOp' = Op("read", <<>>, TRUE, trail.readAt, state,
                             computedMap.cachedValue, TRUE)
             /\ UNCHANGED computedMap
        ELSE /\ pathCache' = after.cache
             /\ computedMap' =
                  [cachedValue |-> value.val,
                   lastDeps |-> [has |-> TRUE, vals |-> after.vals],
                   computeCount |-> computedMap.computeCount + 1]
             /\ lastOp' = Op("read", <<>>, FALSE, trail.readAt, state,
                             value.val, TRUE)
  /\ trail' = [trail EXCEPT !.readAt = state]
  /\ calls' = <<>>
  /\ UNCHANGED <<heap, engineVars, historyVars, persistTimer, storage, now,
                 nOps, nSubs, sinceFlush, cfg, loading, inflight, facade>>

(***************************************************************************)
(* HistoryManager: undo, redo, restoreState                                *)
(***************************************************************************)
UnshiftAtEnd(seq, x) ==
  \* mutant: the entry goes to the far end of the stack
  Append(seq, x)

Unshift(seq, x) ==
  \* Array.prototype.unshift
  <<x>> \o seq

RestoreState(st) ==
  \* currentState = state; onRestore(state) is engine.setState(state, true)
  LET es == EngineSetState(heap, st)
  IN /\ currentState' = st
     /\ state' = es.state
     /\ batchQueue' = es.bq
     /\ calls' = es.calls
     /\ sinceFlush' = QueuedBy(es, TRUE)

Undo ==
  /\ cfg.history
  /\ IF past = <<>>
     THEN /\ lastOp' = Op("undo", <<>>, FALSE, state, state, Undef, FALSE)
          /\ calls' = <<>>
          /\ UNCHANGED <<state, batchQueue, sinceFlush, past, future,
                         currentState, trail>>
     ELSE /\ past' = SubSeq(past, 1, Len(past) - 1)
          /\ future' = Unshift(future, Snapshot(currentState, now))
          /\ RestoreState(past[Len(past)].state)
          /\ lastOp' = Op("undo", <<>>, FALSE, state, past[Len(past)].state,
                          Undef, TRUE)
          /\ trail' = [trail EXCEPT !.undone = @ + 1,
                                    !.regular = @ /\ ~pendingCapture.on]
  /\ UNCHANGED <<heap, pathCache, subscriptionVars, batchStack, flushTimers,
                 lastCaptureTime, pendingCapture, persistTimer, storage, now,
                 nOps, nSubs, cfg, loading, inflight, computedMap, facade>>

Redo ==
  /\ cfg.history
  /\ IF future = <<>>
     THEN /\ lastOp' = Op("redo", <<>>, FALSE, state, state, Undef, FALSE)
          /\ calls' = <<>>
          /\ UNCHANGED <<state, batchQueue, sinceFlush, past, future,
                         currentState, trail>>
     ELSE /\ future' = Tail(future)
          /\ past' = Append(past, Snapshot(currentState, now))
          /\ RestoreState(Head(future).state)
          /\ lastOp' = Op("redo", <<>>, FALSE, state, Head(future).state,
                          Undef, TRUE)
          /\ trail' = [trail EXCEPT
                         !.undone = IF @ > 0 THEN @ - 1 ELSE 0,
                         !.regular = @ /\ ~pendingCapture.on]
  /\ UNCHANGED <<heap, pathCache, subscriptionVars, batchStack, flushTimers,
                 lastCaptureTime, pendingCapture, persistTimer, storage, now,
                 nOps, nSubs, cfg, loading, inflight, computedMap, facade>>

Clear ==
  \* this.past = []; this.future = []
  /\ cfg.history
  /\ past' = <<>>
  /\ future' = <<>>
  /\ calls' = <<>>
  /\ lastOp' = Op("clear", <<>>, FALSE, state, state, Undef, FALSE)
  /\ UNCHANGED <<heap, pathCache, engineVars, currentState, lastCaptureTime,
                 pendingCapture, persistTimer, storage, now, nOps, nSubs,
                 sinceFlush, cfg, loading, inflight, computedMap, facade,
                 trail>>

(***************************************************************************)
(* createStore: getState                                                   *)
(***************************************************************************)
Fn ==
  \* a function value
  [t |-> "fn", v |-> 0]

Methods ==
  [k \in {K("setDeep"), K("dispatch"), K("subscribe"), K("subscribePath"),
          K("deleteDeep"), K("hasPath")} |-> Fn]

GetStateUncached ==
  \* mutant: a new enhanced object is built on every call
  /\ heap' = Alloc(heap, ObjNode(Methods @@ heap[state.v].f))
  /\ facade' = [cachedEnhancedStore |-> Ref(Len(heap) + 1),
                lastRawState |-> state]
  /\ lastOp' = Op("getState", <<>>, FALSE, state, state,
                  Ref(Len(heap) + 1), FALSE)
  /\ calls' = <<>>
  /\ UNCHANGED <<pathCache, engineVars, historyVars, persistTimer, storage,
                 now, nOps, nSubs, sinceFlush, cfg, loading, inflight,
                 computedMap, trail>>

GetState ==
  \* getStateWithComputed: {...state, setDeep, ...}, cached per raw state
  /\ IF facade.cachedEnhancedStore # Null /\ facade.lastRawState = state
     THEN /\ lastOp' = Op("getState", <<>>, FALSE, state, state,
                          facade.cachedEnhancedStore, TRUE)
          /\ UNCHANGED <<heap, facade>>
     ELSE /\ heap' = Alloc(heap, ObjNode(Methods @@ heap[state.v].f))
          /\ facade' = [cachedEnhancedStore |-> Ref(Len(heap) + 1),
                        lastRawState |-> state]
          /\ lastOp' = Op("getState", <<>>, FALSE, state, state,
                          Ref(Len(heap) + 1), FALSE)
  /\ calls' = <<>>
  /\ UNCHANGED <<pathCache, engineVars, historyVars, persistTimer, storage,
                 now, nOps, nSubs, sinceFlush, cfg, loading, inflight,
                 computedMap, trail>>

(***************************************************************************)
(* getState().dispatch: an async action that makes `left` setDeep calls,   *)
(* each after an await; `saw` is the state handed to it                    *)
(***************************************************************************)
MaxTasks ==
  2

Dispatch(steps) ==
  \* const currentState = engine.getState(); await action(currentState,
  \* setDeep): the action runs up to its first await
  /\ Len(inflight) < MaxTasks
  /\ inflight' = Append(inflight, [left |-> steps, saw |-> state])
  /\ calls' = <<>>
  /\ lastOp' = Op("dispatch", <<>>, FALSE, state, state, Num(steps), FALSE)
  /\ UNCHANGED <<heap, pathCache, engineVars, historyVars, persistTimer,
                 storage, now, nOps, nSubs, sinceFlush, cfg, loading,
                 computedMap, facade, trail>>

DoDispatch ==
  \E steps \in 1..MaxOps : Dispatch(steps)

Remove(seq, i) ==
  [j \in 1..(Len(seq) - 1) |-> IF j < i THEN seq[j] ELSE seq[j + 1]]

Resume(i) ==
  \* the action of task i resumes after its await and calls setDeep; a
  \* throwing setDeep rejects the promise, the last step resolves it
  /\ i \in 1..Len(inflight)
  /\ \E path \in cfg.paths, action \in cfg.acts :
       /\ SetDeep(path, action)
       /\ inflight' = IF lastOp'.threw \/ inflight[i].left = 1
                      THEN Remove(inflight, i)
                      ELSE [inflight EXCEPT ![i].left = @ - 1]

DoResume ==
  \E i \in 1..MaxTasks : Resume(i)

(***************************************************************************)
(* getState().deleteDeep                                                   *)
(***************************************************************************)
DeleteDeep(path) ==
  \* deleteNestedValue on a structuredClone of the state, then
  \* engine.setState(newState, true) if it returned true
  /\ nOps < MaxOps
  /\ nOps' = nOps + 1
  /\ LET newState == StructuredClone(heap, state)
         del == DeleteNestedValue(newState.h, pathCache, newState.root, path)
         es == EngineSetState(del.h, newState.root)
     IN /\ pathCache' = del.cache
        /\ IF del.deleted
           THEN /\ heap' = del.h
                /\ state' = es.state
                /\ batchQueue' = es.bq
                /\ calls' = es.calls
                /\ sinceFlush' = QueuedBy(es, FALSE)
           ELSE /\ calls' = <<>>
                /\ UNCHANGED <<heap, state, batchQueue, sinceFlush>>
        /\ lastOp' = Op("deleteDeep", path, del.threw, state,
                        IF del.deleted THEN newState.root ELSE state,
                        Undef, del.deleted)
  /\ UNCHANGED <<subscriptionVars, batchStack, flushTimers, historyVars,
                 persistTimer, storage, now, nSubs, cfg, loading, inflight,
                 computedMap, facade, trail>>

DoDeleteDeep ==
  \E path \in cfg.paths : DeleteDeep(path)

\* deleteDeep of the store object built by createEnhancedStore (the one the
\* hook returns and plugins receive): deleteNestedValue on a shallow copy
\* {...engine.getState()}, then engine.setState(newState) merges the copy
\* into the state
EnhancedDeleteDeep(path) ==
  /\ nOps < MaxOps
  /\ nOps' = nOps + 1
  /\ LET h1 == Alloc(heap, ObjNode(heap[state.v].f))
         newState == Ref(Len(h1))
         del == DeleteNestedValue(h1, pathCache, newState, path)
         h2 == Alloc(del.h, ObjNode(del.h[newState.v].f @@ del.h[state.v].f))
         es == EngineSetState(h2, Ref(Len(h2)))
     IN /\ pathCache' = del.cache
        /\ IF del.deleted
           THEN /\ heap' = h2
                /\ state' = es.state
                /\ batchQueue' = es.bq
                /\ calls' = es.calls
                /\ sinceFlush' = QueuedBy(es, FALSE)
           ELSE /\ calls' = <<>>
                /\ UNCHANGED <<heap, state, batchQueue, sinceFlush>>
        /\ lastOp' = Op("deleteDeep", path, del.threw, state,
                        IF del.deleted THEN Ref(Len(h2)) ELSE state,
                        Undef, del.deleted)
  /\ UNCHANGED <<subscriptionVars, batchStack, flushTimers, historyVars,
                 persistTimer, storage, now, nSubs, cfg, loading, inflight,
                 computedMap, facade, trail>>

DoEnhancedDeleteDeep ==
  \E path \in cfg.paths : EnhancedDeleteDeep(path)

(***************************************************************************)
(* createStore: destroy                                                    *)
(***************************************************************************)
DestroyLeavesTimers ==
  \* mutant: the sets are released but no timer is cleared
  /\ listeners' = <<>>
  /\ pathListeners' = <<>>
  /\ computedMap' = NoCache
  /\ past' = <<>>
  /\ future' = <<>>
  /\ trail' = [trail EXCEPT !.quiet = TRUE]
  /\ calls' = <<>>
  /\ lastOp' = Op("destroy", <<>>, FALSE, state, state, Undef, FALSE)
  /\ UNCHANGED <<heap, pathCache, state, cbSets, closures, batchQueue,
                 batchStack, flushTimers, currentState, lastCaptureTime,
                 pendingCapture, persistTimer, storage, now, nOps, nSubs,
                 sinceFlush, cfg, loading, inflight, facade>>

Destroy ==
  \* clearTimeout(persistTimer); engine.destroy(): listeners.clear(),
  \* pathListeners.clear(); computedEngine.destroy(): computedMap.clear();
  \* historyManager.destroy(): clearTimeout(pendingCapture), clear()
  /\ persistTimer' = NoTimer
  /\ listeners' = <<>>
  /\ pathListeners' = <<>>
  /\ computedMap' = NoCache
  /\ pendingCapture' = IF cfg.history THEN NoTimer ELSE pendingCapture
  /\ past' = IF cfg.history THEN <<>> ELSE past
  /\ future' = IF cfg.history THEN <<>> ELSE future
  /\ trail' = [trail EXCEPT !.quiet = TRUE]
  /\ calls' = <<>>
  /\ lastOp' = Op("destroy", <<>>, FALSE, state, state, Undef, FALSE)
  /\ UNCHANGED <<heap, pathCache, state, cbSets, closures, batchQueue,
                 batchStack, flushTimers, currentState, lastCaptureTime,
                 storage, now, nOps, nSubs, sinceFlush, cfg, loading,
                 inflight, facade>>

(***************************************************************************)
(* pathUtils.ts used directly: setNestedValue(c, p, v) on a fresh clone c  *)
(* of the state, then getNestedValue(c, p)                                 *)
(***************************************************************************)
SetOnClone(path, value) ==
  /\ nOps < MaxOps
  /\ nOps' = nOps + 1
  /\ LET c == StructuredClone(heap, state)
         set == SetNestedValue(c.h, pathCache, c.root, path, value)
     IN /\ heap' = set.h
        /\ pathCache' = set.cache
        /\ lastOp' = Op("setNestedValue", path, set.threw, state, c.root,
                        value, FALSE)
  /\ calls' = <<>>
  /\ UNCHANGED <<engineVars, historyVars, persistTimer, storage, now, nSubs,
                 sinceFlush, cfg, loading, inflight, computedMap, facade,
                 trail>>

DoSetOnClone ==
  \E path \in cfg.paths, action \in cfg.acts :
    action.kind = "value" /\ SetOnClone(path, action.v)

GetBack ==
  \* getNestedValue on the clone and path of the setNestedValue just made
  /\ lastOp.op = "setNestedValue"
  /\ ~lastOp.threw
  /\ LET got == GetNestedValue(heap, pathCache, lastOp.next, lastOp.path)
     IN /\ pathCache' = got.cache
        /\ lastOp' = Op("getNestedValue", lastOp.path, got.threw, lastOp.prev,
                        lastOp.next, got.val, FALSE)
  /\ calls' = <<>>
  /\ UNCHANGED <<heap, engineVars, historyVars, persistTimer, storage, now,
                 nOps, nSubs, sinceFlush, cfg, loading, inflight, computedMap,
                 facade, trail>>

(***************************************************************************)
(* Specifications                                                          *)
(***************************************************************************)
Options(paths, acts, patches, nLs, nCbs, watch, history, persist) ==
  [paths |-> paths, acts |-> acts, patches |-> patches,
   listeners |-> 1..nLs, callbacks |-> 1..nCbs, watch |-> watch,
   history |-> history, persist |-> persist, maxSize |-> HistMaxSize,
   captureInterval |-> CaptureInterval, deps |-> <<>>, reads |-> {},
   throwers |-> {}, ops |-> MaxOps, middleware |-> <<>>, plugins |-> <<>>,
   chain |-> <<>>, reactors |-> {}, stored |-> EmptyFields,
   batchers |-> {}]

\* setDeep alone, over valid paths
InitWrites ==
  InitWith(Options({P_counter, P_user_name, P_user_age, P_items_0_x,
                    P_items_2_x, P_list_0},
                   {ActValue(Num(7)), ActValue(Num(8)), ActInc},
                   {}, 0, 0, {}, FALSE, FALSE))

NextWrites ==
  DoSetDeep

SpecWrites ==
  InitWrites /\ [][NextWrites]_vars

\* setDeep alone, over valid, failing and forbidden paths
InitPaths ==
  InitWith(Options({P_counter, P_user_name, P_items_2_x, P_items_k,
                    P_counter_k, P_list_0} \cup ForbiddenPaths,
                   {ActValue(Num(7)), ActInc, ActThrow},
                   {}, 0, 0, {}, FALSE, FALSE))

NextPaths ==
  DoSetDeep

SpecPaths ==
  InitPaths /\ [][NextPaths]_vars

\* setDeep with listeners, history and persistence
InitFail ==
  InitWith(Options({P_counter, P_user_age, P_items_k, P_counter_k, P_empty,
                    P_proto_polluted},
                   {ActValue(Num(7)), ActThrow},
                   {}, 1, 1, {P_user_age}, TRUE, TRUE))

NextFail ==
  \/ DoSetDeep
  \/ DoSubscribe
  \/ DoSubscribePath
  \/ Tick
  \/ CaptureFire
  \/ PersistFire

SpecFail ==
  InitFail /\ [][NextFail]_vars

\* setDeep with path subscriptions
InitWatch ==
  InitWith(Options({P_user_name, P_user_age},
                   {ActValue(Num(7)), ActValue(Num(2))},
                   {}, 0, NumCallbacks, {P_user_age}, FALSE, FALSE))

NextWatch ==
  \/ DoSetDeep
  \/ DoSubscribePath
  \/ DoUnsubscribe

SpecWatch ==
  InitWatch /\ [][NextWatch]_vars

\* a computed value over an object and a scalar, and setDeep
InitComputed ==
  InitWith([Options({P_items_0_x, P_counter, P_user_age}, {ActInc},
                    {}, 0, 0, {}, FALSE, FALSE)
              EXCEPT !.deps = << <<"user">>, P_counter >>,
                     !.reads = <<P_user_age, P_counter>>])

NextComputed ==
  \/ DoSetDeep
  \/ ReadComputed

SpecComputed ==
  InitComputed /\ [][NextComputed]_vars

\* a computed value under setDeep, setState, undo and redo
InitTotals ==
  InitWith([Options({P_items_0_x, P_counter, P_user_age}, {ActInc},
                    {Num(5)}, 0, 0, {}, TRUE, FALSE)
              EXCEPT !.deps = << P_user_age, <<"items">> >>,
                     !.reads = <<P_user_age, P_items_0_x>>])

NextTotals ==
  \/ DoSetDeep
  \/ DoSetState
  \/ Undo
  \/ Redo
  \/ ReadComputed

SpecTotals ==
  InitTotals /\ [][NextTotals]_vars

\* history: setDeep at various times, capture timer, undo and redo
InitHistory ==
  InitWith(Options({P_counter, P_user_age}, {ActInc},
                   {}, 0, 0, {}, TRUE, FALSE))

NextHistory ==
  \/ DoSetDeep
  \/ Tick
  \/ CaptureFire
  \/ Undo
  \/ Redo

SpecHistory ==
  InitHistory /\ [][NextHistory]_vars

\* history holding a single entry
InitEvict ==
  InitWith([Options({P_counter, P_user_age}, {ActInc},
                    {}, 0, 0, {}, TRUE, FALSE)
              EXCEPT !.maxSize = 1])

SpecEvict ==
  InitEvict /\ [][NextHistory]_vars

\* setDeep through a chain of two middlewares, the second one validating
InitMiddleware ==
  InitWith(CreateStore(
    [Options({P_counter, P_user_age},
             {ActValue(Num(1)), ActValue(Num(3)), ActInc}, {}, 1, 0, {},
             FALSE, FALSE)
       EXCEPT !.middleware = <<Mw("double", "inc"), Mw("limit", "double")>>,
              !.ops = 3]))

NextMiddleware ==
  \/ DoSetDeep
  \/ DoSubscribe

SpecMiddleware ==
  InitMiddleware /\ [][NextMiddleware]_vars

\* setDeep in a store with one listed middleware and one plugin middleware
InitPlugin ==
  InitWith(CreateStore(
    [Options({P_counter, P_user_age},
             {ActValue(Num(1)), ActValue(Num(3)), ActInc}, {}, 1, 0, {},
             FALSE, FALSE)
       EXCEPT !.middleware = <<Mw("double", "id")>>,
              !.plugins = <<Mw("inc", "id")>>,
              !.ops = 3]))

NextPlugin ==
  \/ DoSetDeep
  \/ DoSubscribe

SpecPlugin ==
  InitPlugin /\ [][NextPlugin]_vars

\* writes and deletions through getState() and through the hook's store
InitInPlace ==
  InitWith(Options({P_counter, P_user_name, P_items_0_x},
                   {ActValue(Num(7))}, {Num(5)}, 1, 0, {}, TRUE, FALSE))

NextInPlace ==
  \/ DoSetDeep
  \/ DoSetState
  \/ DoDeleteDeep
  \/ DoEnhancedDeleteDeep
  \/ Undo
  \/ Redo
  \/ DoSubscribe

SpecInPlace ==
  InitInPlace /\ [][NextInPlace]_vars

\* history: setDeep at various times, capture timer, undo, redo and clear
InitClear ==
  InitWith(Options({P_counter, P_user_age}, {ActInc},
                   {}, 0, 0, {}, TRUE, FALSE))

NextClear ==
  \/ DoSetDeep
  \/ Tick
  \/ CaptureFire
  \/ Undo
  \/ Redo
  \/ Clear

SpecClear ==
  InitClear /\ [][NextClear]_vars

\* a listener that calls setDeep from inside a notification
InitReenter ==
  InitWith([Options({P_user_age, P_user_name}, {ActValue(Num(7))}, {},
                    NumListeners, 0, {}, FALSE, FALSE)
              EXCEPT !.reactors = {1}])

NextReenter ==
  \/ DoSetDeep
  \/ DoSubscribe
  \/ DoUnsubscribe

SpecReenter ==
  InitReenter /\ [][NextReenter]_vars

\* persistence: a store created over storage left by an earlier session
InitHydrate ==
  InitWith([Options({P_counter, P_user_age}, {ActValue(Num(7))}, {}, 1, 0,
                    {}, FALSE, TRUE)
              EXCEPT !.stored = K("counter") :> Num(5)])

NextHydrate ==
  \/ DoSetDeep
  \/ Tick
  \/ PersistFire
  \/ Load
  \/ Hydrate
  \/ DoSubscribe

SpecHydrate ==
  InitHydrate /\ [][NextHydrate]_vars

\* listeners subscribe, one of them batching during a flush; then batches
\* and up to two writes while the flag is set, with a write or a flush
\* between the end of one batch and the start of the next
InitFlush ==
  InitWith([Options({P_counter}, {ActValue(Num(7))}, {Num(5)},
                    2, 0, {}, FALSE, FALSE)
              EXCEPT !.batchers = {1}])

NextFlush ==
  \/ (nOps = 0 /\ ~batchQueue.pending /\ DoSubscribe)
  \/ (lastOp.op # "batchExit" /\ BatchEnter)
  \/ DoBatchExit
  \/ DoFlush
  \/ (batchQueue.pending /\ nOps < 2 /\ DoSetState)

SpecFlush ==
  InitFlush /\ [][NextFlush]_vars

\* a timer that is scheduled fires once no call is executing, and a batch
\* callback returns or throws
SpecFlushFair ==
  InitFlush /\ [][NextFlush]_vars /\ WF_vars(DoFlush) /\ WF_vars(DoBatchExit)

\* path subscriptions on valid, failing and forbidden paths
InitResolve ==
  InitWith(Options({P_user_name, P_counter}, {ActValue(Num(7))}, {}, 0, 1,
                   {P_user_name, P_user_age, P_items_0_x, P_items_k,
                    P_user_proto},
                   FALSE, FALSE))

NextResolve ==
  \/ DoSetDeep
  \/ DoSubscribePath

SpecResolve ==
  InitResolve /\ [][NextResolve]_vars

\* deleteDeep over existing and missing entries
InitDelete ==
  InitWith(Options({P_counter, P_user_name, P_items_0_x, P_items_k,
                    P_counter_k, P_list_0, P_polluted, P_user_proto},
                   {ActValue(Num(7))}, {}, 1, 0, {}, FALSE, FALSE))

NextDelete ==
  \/ DoDeleteDeep
  \/ DoSetDeep
  \/ DoSubscribe

SpecDelete ==
  InitDelete /\ [][NextDelete]_vars

\* history with bursts of up to MaxOps deferred captures
InitBurst ==
  InitWith([Options({P_counter, P_user_age}, {ActInc, ActValue(Num(7))},
                    {}, 0, 0, {}, TRUE, FALSE)
              EXCEPT !.ops = MaxOps + 1])

NextBurst ==
  \/ DoSetDeep
  \/ Tick
  \/ CaptureFire

SpecBurst ==
  InitBurst /\ [][NextBurst]_vars

\* path subscriptions on an object and on an array
InitSubtree ==
  InitWith(Options({P_counter, P_user_age, P_items_0_x},
                   {ActValue(Num(7))}, {}, 0, 1,
                   {<<"user">>, <<"items">>}, FALSE, FALSE))

NextSubtree ==
  \/ DoSetDeep
  \/ DoSubscribePath

SpecSubtree ==
  InitSubtree /\ [][NextSubtree]_vars

\* listeners and callbacks of which the first throws
InitThrow ==
  InitWith([Options({P_counter, P_user_age}, {ActValue(Num(7))},
                    {Num(5)}, NumListeners, NumCallbacks, {P_user_age},
                    FALSE, FALSE)
              EXCEPT !.throwers = {1}])

NextThrow ==
  \/ DoSetDeep
  \/ DoSetState
  \/ DoSubscribe
  \/ DoSubscribePath

SpecThrow ==
  InitThrow /\ [][NextThrow]_vars

\* async actions dispatched and resumed in any order
InitDispatch ==
  InitWith(Options({P_counter}, {ActInc}, {}, 1, 0, {}, FALSE, FALSE))

NextDispatch ==
  \/ DoDispatch
  \/ DoResume
  \/ DoSubscribe
  \/ GetState

SpecDispatch ==
  InitDispatch /\ [][NextDispatch]_vars

\* destroy between writes, with history and persistence
InitDestroy ==
  InitWith(Options({P_counter, P_user_age}, {ActValue(Num(7))},
                   {}, 1, 0, {}, TRUE, TRUE))

NextDestroy ==
  \/ DoSetDeep
  \/ DoSubscribe
  \/ Tick
  \/ CaptureFire
  \/ PersistFire
  \/ Destroy

SpecDestroy ==
  InitDestroy /\ [][NextDestroy]_vars

\* setNestedValue on a fresh clone, then getNestedValue on it
InitRoundTrip ==
  InitWith(Options({P_counter, P_user_name, P_user_age, P_items_0_x,
                    P_items_2_x},
                   {ActValue(Num(7)), ActValue(Null)},
                   {}, 0, 0, {}, FALSE, FALSE))

NextRoundTrip ==
  \/ DoSetOnClone
  \/ GetBack

SpecRoundTrip ==
  InitRoundTrip /\ [][NextRoundTrip]_vars

\* getState between successful and failing writes
InitFacade ==
  InitWith(Options({P_counter, P_user_age, P_items_k, P_proto_polluted},
                   {ActValue(Num(7)), ActThrow},
                   {Undef, Num(5)}, 0, 0, {}, FALSE, FALSE))

NextFacade ==
  \/ DoSetDeep
  \/ DoSetState
  \/ GetState

SpecFacade ==
  InitFacade /\ [][NextFacade]_vars

\* subscriptions, setDeep and setState
InitNotify ==
  InitWith(Options({P_user_name, P_user_age},
                   {ActValue(Num(7)), ActValue(Num(2))},
                   {Undef, Num(5)}, NumListeners, NumCallbacks,
                   {P_user_age}, FALSE, FALSE))

NextNotify ==
  \/ DoSetDeep
  \/ DoSetState
  \/ DoSubscribe
  \/ DoSubscribePath
  \/ DoUnsubscribe

SpecNotify ==
  InitNotify /\ [][NextNotify]_vars

\* batching
InitBatch ==
  InitWith(Options({P_counter, P_user_name},
                   {ActValue(Num(7))},
                   {Num(5)}, NumListeners, 0, {},
                   FALSE, FALSE))

NextBatch ==
  \/ DoSetDeep
  \/ DoSetState
  \/ DoSubscribe
  \/ BatchEnter
  \/ DoBatchExit
  \/ DoFlush

SpecBatch ==
  InitBatch /\ [][NextBatch]_vars

Init ==
  InitNotify

Next ==
  NextNotify

Spec ==
  SpecNotify

Unrelated(p, q) ==
  \* neither path is a prefix of the other
  ~IsPrefixSeq(Split(p), Split(q)) /\ ~IsPrefixSeq(Split(q), Split(p))

ProbePaths ==
  {P_counter, P_user_name, P_user_age, <<"user">>, <<"items">>,
   <<"items", ".", "0">>, P_items_0_x, <<"items", ".", "1">>,
   <<"items", ".", "2">>, P_items_2_x, <<"list">>, P_list_0}

IsForbiddenPath(path) ==
  \/ path = <<>>
  \/ \E i \in 1..Len(Split(path)) : Split(path)[i] \in DANGEROUS_PROPS

(***************************************************************************)
(* C1: with no middleware, a successful setDeep(p, v) leaves a state in    *)
(* which the value at p is v and every path that is neither a prefix nor   *)
(* an extension of p has the value it had before, also when the same       *)
(* multi-segment path is written repeatedly.                               *)
(***************************************************************************)
C1_SetDeepReplacesExactlyThePath ==
  (lastOp.op = "setDeep" /\ ~lastOp.threw) =>
    /\ DeepEq(heap, At(heap, state, lastOp.path), heap, lastOp.val)
    /\ \A q \in ProbePaths :
         Unrelated(q, lastOp.path) =>
           DeepEq(heap, At(heap, state, q), heap, At(heap, lastOp.prev, q))

(***************************************************************************)
(* C2: setDeep with an empty path, or with __proto__, constructor or       *)
(* prototype as a segment at any position, throws; Object.prototype gains  *)
(* no property and the canonical state is unchanged.                       *)
(***************************************************************************)
C2_ForbiddenPathRejected ==
  [][ (lastOp'.op = "setDeep" /\ IsForbiddenPath(lastOp'.path)) =>
        /\ lastOp'.threw
        /\ state' = state
        /\ DeepEq(heap', state', heap, state)
        /\ heap'[ProtoAddr] = ObjNode(EmptyFields) ]_vars

C2_Witness ==
  /\ lastOp.op = "setDeep"
  /\ lastOp.path = P_user_ctor_k
  /\ lastOp.threw
  /\ state # Ref(RootAddr)

(***************************************************************************)
(* C3: a setDeep that throws (invalid or forbidden path, non-numeric       *)
(* segment under an array, throwing updater) leaves the store as it was:   *)
(* same state, no listener invoked, no history entry, no save scheduled.   *)
(***************************************************************************)
NonNumericUnderArray(h, st, path) ==
  \E i \in 1..Len(Split(path)) :
    LET holder == ValueAt(h, st, SubSeq(Split(path), 1, i - 1), 1)
    IN IsArray(h, holder) /\ ParseInt(Split(path)[i]).nan

MustThrow(op, h, st) ==
  \/ IsForbiddenPath(op.path)
  \/ op.arg = "throw"
  \/ NonNumericUnderArray(h, st, op.path)

C3_FailedSetDeepLeavesStore ==
  [][ /\ (lastOp'.op = "setDeep" /\ MustThrow(lastOp', heap, state)) =>
           lastOp'.threw
      /\ (lastOp'.op = "setDeep" /\ lastOp'.threw) =>
           /\ state' = state
           /\ DeepEq(heap', state', heap, state)
           /\ calls' = <<>>
           /\ batchQueue' = batchQueue
           /\ <<past, future, currentState, pendingCapture>>'
                = <<past, future, currentState, pendingCapture>>
           /\ persistTimer' = persistTimer
           /\ storage' = storage ]_vars

C3_Witness ==
  /\ lastOp.op = "setDeep"
  /\ lastOp.threw
  /\ lastOp.path = P_items_k
  /\ listeners # <<>>
  /\ pathListeners # <<>>
  /\ persistTimer.on
  /\ past # <<>>

(***************************************************************************)
(* Reading the listener invocations of the latest step                     *)
(***************************************************************************)
IsGlobalCall(c) ==
  c.kind = "global"

GlobalCallsOf(cs, listener) ==
  SelectSeq(cs, LAMBDA c : c.kind = "global" /\ c.id = listener)

PathCallsOf(cs, path, callback) ==
  SelectSeq(cs, LAMBDA c : c.kind = "path" /\ c.path = path /\ c.id = callback)

Watching(path, callback) ==
  MapHas(path) /\ SeqHas(cbSets[MapGet(path)], callback)

ScalarUser(h, st) ==
  \* st is {user: {name, age}, ...} with scalar name and age
  /\ IsRef(At(h, st, <<"user">>))
  /\ h[At(h, st, <<"user">>).v].k = "obj"
  /\ At(h, st, P_user_name).t = "num"
  /\ At(h, st, P_user_age).t = "num"

IsWrite(op) ==
  op.op \in {"setDeep", "setState"} /\ ~op.threw

(***************************************************************************)
(* C4: on a state {user: {name, age}} with scalar leaves, a callback       *)
(* subscribed on "user.age" is not invoked by a setDeep that leaves        *)
(* user.age as it was (one that changes only user.name), and is invoked    *)
(* exactly once, with (newValue, oldValue, fullState), by a setDeep after  *)
(* which user.age has a different value.                                   *)
(***************************************************************************)
C4_PathListenerFiresOnlyForItsPath ==
  (lastOp.op = "setDeep" /\ ~lastOp.threw /\ ScalarUser(heap, lastOp.prev)) =>
    \A callback \in cfg.callbacks :
      Watching(P_user_age, callback) =>
        LET oldValue == At(heap, lastOp.prev, P_user_age)
            newValue == At(heap, state, P_user_age)
        IN IF oldValue = newValue
           THEN PathCallsOf(calls, P_user_age, callback) = <<>>
           ELSE PathCallsOf(calls, P_user_age, callback)
                  = << PathCall(callback, P_user_age, newValue, oldValue,
                                state) >>

C4_Witness ==
  /\ lastOp.op = "setDeep"
  /\ lastOp.path = P_user_age
  /\ ~lastOp.threw
  /\ ScalarUser(heap, lastOp.prev)
  /\ At(heap, state, P_user_age) = Num(7)
  /\ Watching(P_user_age, 1)
  /\ Watching(P_user_age, 2)
  /\ Len(calls) = 2

(***************************************************************************)
(* C5: setState called with a value that is Object.is-equal to the current *)
(* state invokes no listener, for either value of the replace flag.        *)
(***************************************************************************)
C5_SetStateSameValueIsSilent ==
  (lastOp.op = "setState" /\ lastOp.val = Undef) => calls = <<>>

(***************************************************************************)
(* C6: when the notifications flushed are those of k >= 1 setDeep calls    *)
(* made inside a single batch(fn), the flush invokes each global           *)
(* subscriber exactly once.                                                *)
(***************************************************************************)
C6_OneNotificationPerBatch ==
  [][ ( /\ lastOp'.op = "flush"
        /\ sinceFlush.scopes = 1
        /\ ~sinceFlush.loose
        /\ ~sinceFlush.direct
        /\ batchQueue.updates # <<>> ) =>
        \A listener \in 1..NumListeners :
          SeqHas(listeners, listener) =>
            Len(GlobalCallsOf(calls', listener)) = 1 ]_vars

(***************************************************************************)
(* C7: batching defers only notifications.  Inside a batch scope every     *)
(* successful setDeep or setState installs its new state at once; leaving  *)
(* the scope, by return or by throw, changes nothing of the state; and     *)
(* while a batch is pending no listener is invoked except by the flush,    *)
(* which runs only when no scope is executing.                             *)
(***************************************************************************)
C7_BatchDefersOnlyNotifications ==
  [][ /\ (IsWrite(lastOp') /\ batchStack # <<>>) =>
           /\ state' = lastOp'.next
           /\ state' # state
           /\ calls' = <<>>
      /\ (lastOp'.op = "setState" /\ batchStack # <<>>) =>
           At(heap', state', P_counter) = lastOp'.val
      /\ ( /\ lastOp'.op = "setDeep"
           /\ ~lastOp'.threw
           /\ batchStack # <<>>
           /\ ~CacheHas(pathCache, lastOp'.path) ) =>
           DeepEq(heap', At(heap', state', lastOp'.path), heap', lastOp'.val)
      /\ lastOp'.op = "batchExit" =>
           /\ state' = state
           /\ DeepEq(heap', state', heap, state)
           /\ calls' = <<>>
      /\ batchStack # <<>> => batchQueue.pending
      /\ (batchQueue.pending /\ calls' # <<>>) =>
           /\ lastOp'.op = "flush"
           /\ batchStack = <<>> ]_vars

C7_Witness ==
  /\ lastOp.op = "setDeep"
  /\ ~lastOp.threw
  /\ batchStack # <<>>
  /\ listeners # <<>>
  /\ Len(batchQueue.updates) = 2
  /\ At(heap, state, P_counter) = Num(7)
  /\ calls = <<>>

(***************************************************************************)
(* C8: nested batch calls coalesce into the outermost scope.               *)
(***************************************************************************)
InnerExitIsQuiet ==
  \* the exit of an inner batch neither runs nor schedules a flush
  (lastOp'.op = "batchExit" /\ Len(batchStack) > 1) =>
    /\ flushTimers' = flushTimers
    /\ batchQueue' = batchQueue
    /\ calls' = <<>>

IsOutermostExit ==
  lastOp'.op = "batchExit" /\ Len(batchStack) = 1

\* C8 as stated: the exit of an inner batch neither runs nor schedules a
\* flush, the exit of the outermost batch schedules exactly one flush, and
\* at most one flush timer is outstanding at any time.
C8_OutermostExitSchedulesFlush ==
  [][ /\ InnerExitIsQuiet
      /\ IsOutermostExit => Cardinality(flushTimers' \ flushTimers) = 1
      /\ Cardinality(flushTimers') <= 1 ]_vars

\* C8 amended: the exit of an inner batch neither runs nor schedules a
\* flush; the exit of the outermost batch schedules one flush if no batch
\* was pending when it was entered, and none if one was, the flush of the
\* earlier batch being still outstanding; either way exactly one flush timer
\* is outstanding after it, and at most one at any time.
C8_OutermostExitLeavesOneFlush ==
  [][ /\ InnerExitIsQuiet
      /\ IsOutermostExit =>
           /\ lastOp'.flag <=> flushTimers # {}
           /\ ~lastOp'.flag => Cardinality(flushTimers' \ flushTimers) = 1
           /\ lastOp'.flag => flushTimers' = flushTimers
           /\ Cardinality(flushTimers') = 1
      /\ Cardinality(flushTimers') <= 1 ]_vars

C8_Witness ==
  /\ lastOp.op = "batchExit"
  /\ batchStack = <<>>
  /\ lastOp.flag
  /\ Cardinality(flushTimers) = 1
  /\ sinceFlush.scopes = 2

(***************************************************************************)
(* C9: a state change made while no batch is pending invokes every global  *)
(* listener within the same call, in subscription order (a newly           *)
(* subscribed listener goes last), each with (newState, previousState).    *)
(***************************************************************************)
C9_SynchronousOrderedNotification ==
  [][ /\ (IsWrite(lastOp') /\ state' # state /\ ~batchQueue.pending) =>
           SelectSeq(calls', IsGlobalCall)
             = [i \in 1..Len(listeners) |->
                  GlobalCall(listeners[i], state', state)]
      /\ lastOp'.op = "subscribe" =>
           listeners' = IF SeqHas(listeners, lastOp'.val.v)
                        THEN listeners
                        ELSE Append(listeners, lastOp'.val.v) ]_vars

C9_Witness ==
  /\ lastOp.op = "setDeep"
  /\ ~lastOp.threw
  /\ ~batchQueue.pending
  /\ listeners = <<2, 1>>
  /\ calls = << GlobalCall(2, state, lastOp.prev),
                GlobalCall(1, state, lastOp.prev) >>
  /\ state # lastOp.prev

(***************************************************************************)
(* C10: a listener is invoked only through a subscription whose            *)
(* unsubscribe function has not been called, and every subscription whose  *)
(* unsubscribe function has not been called is notified: a global one of   *)
(* every state change, a path one of every change of the value at its      *)
(* path.                                                                   *)
(***************************************************************************)
Live(kind, path, id) ==
  \E c \in closures :
    ~c.called /\ c.kind = kind /\ c.path = path /\ c.id = id

C10_UnsubscribeStopsOnlyItsListener ==
  /\ \A i \in 1..Len(calls) :
       Live(calls[i].kind, calls[i].path, calls[i].id)
  /\ (IsWrite(lastOp) /\ lastOp.prev # state) =>
       \A c \in closures :
         ~c.called =>
           IF c.kind = "global"
           THEN GlobalCallsOf(calls, c.id) # <<>>
           ELSE At(heap, lastOp.prev, c.path) # At(heap, state, c.path) =>
                  PathCallsOf(calls, c.path, c.id) # <<>>

(***************************************************************************)
(* C11: a read of a cached computed value with dependencies a and b        *)
(* invokes compute if and only if nothing is cached or the value at a or   *)
(* at b differs from what it was at the previous read, whatever kind of    *)
(* value a and b hold; a setDeep on a path unrelated to the dependencies   *)
(* leaves the cached value and the compute count unchanged.                *)
(***************************************************************************)
DepsDiffer(h, st1, st2) ==
  \E i \in 1..Len(cfg.deps) :
    ~DeepEq(h, At(h, st1, cfg.deps[i]), h, At(h, st2, cfg.deps[i]))

C11_RecomputesIffDependencyChanged ==
  [][ /\ lastOp'.op = "read" =>
           ( computedMap'.computeCount # computedMap.computeCount
               <=> \/ computedMap.cachedValue = Undef
                   \/ DepsDiffer(heap, trail.readAt, state) )
      /\ ( /\ lastOp'.op = "setDeep"
           /\ ~lastOp'.threw
           /\ \A i \in 1..Len(cfg.deps) :
                Unrelated(cfg.deps[i], lastOp'.path) ) =>
           computedMap' = computedMap ]_vars

Written ==
  \* n, the number of successful setDeep calls so far
  Len(trail.states) - 1

C13_UndoRedoWalkTheWrites ==
  (trail.regular /\ Written <= cfg.maxSize /\ trail.undone <= Written) =>
    DeepEq(heap, state, heap, trail.states[Written - trail.undone + 1])

C13_Witness ==
  /\ trail.regular
  /\ Written = 2
  /\ lastOp.op = "redo"
  /\ lastOp.flag
  /\ trail.undone = 1
  /\ Len(past) = 1
  /\ Len(future) = 1
  /\ At(heap, state, P_counter) = Num(1)

(***************************************************************************)
(* C14: directly after n >= 2 consecutive setDeep calls (no time passes    *)
(* between them or before the undo), one undo() reverts only the last      *)
(* change, and a following redo() brings the last state back.              *)
(***************************************************************************)
C14_UndoRightAfterBurst ==
  (now = StartTime /\ Written >= 2) =>
    /\ (lastOp.op = "undo" /\ trail.undone = 1) =>
         DeepEq(heap, state, heap, trail.states[Written])
    /\ (lastOp.op = "redo" /\ trail.undone = 0) =>
         DeepEq(heap, state, heap, trail.states[Written + 1])

(***************************************************************************)
(* C15: past never holds more than maxSize entries, nor do past and future  *)
(* together; a committed capture that finds past full evicts its oldest    *)
(* entry.                                                                  *)
(***************************************************************************)
IsCommit ==
  \* the step commits a capture
  lastOp'.op \in {"setDeep", "captureFire"} /\ currentState' # currentState

C15_HistoryBoundedOldestEvicted ==
  [][ /\ Len(past') <= cfg.maxSize
      /\ Len(past') + Len(future') <= cfg.maxSize
      /\ (IsCommit /\ Len(past) = cfg.maxSize) =>
           past' = Append(Tail(past), Snapshot(currentState, lastCaptureTime))
    ]_vars

C15_Witness ==
  /\ lastOp.op \in {"setDeep", "captureFire"}
  /\ Written = 2
  /\ Len(past) = cfg.maxSize
  /\ past[1].state # Ref(RootAddr)
  /\ DeepEq(heap, past[1].state, heap, trail.states[2])

(***************************************************************************)
(* C16: a capture committed after an undo empties the future stack; with   *)
(* an empty future stack redo changes nothing, and only an undo makes the  *)
(* future stack non-empty again.                                           *)
(***************************************************************************)
C16_CaptureAfterUndoClearsFuture ==
  [][ /\ IsCommit => future' = <<>>
      /\ (lastOp'.op = "redo" /\ future = <<>>) =>
           /\ state' = state
           /\ <<past, future, currentState>>' = <<past, future, currentState>>
           /\ calls' = <<>>
      /\ (future = <<>> /\ future' # <<>>) => lastOp'.op = "undo" ]_vars

C16_Witness ==
  /\ trail.branched
  /\ future = <<>>
  /\ lastOp.op = "redo"
  /\ ~lastOp.flag

(***************************************************************************)
(* C17: getState() returns the object it returned before as long as the    *)
(* canonical state is the one that object was built from, a failed setDeep *)
(* changes neither; and the object getState() returns always carries the   *)
(* plain fields of the current canonical state.                            *)
(***************************************************************************)
C17_GetStateStableUntilChange ==
  [][ /\ lastOp'.op = "getState" =>
           /\ lastOp'.val.t = "ref"
           /\ ( facade.cachedEnhancedStore # Null
                /\ facade.lastRawState = state ) =>
                  /\ lastOp'.val = facade.cachedEnhancedStore
                  /\ heap' = heap
           /\ \A k \in DOMAIN heap[state.v].f :
                /\ k \in DOMAIN heap'[lastOp'.val.v].f
                /\ heap'[lastOp'.val.v].f[k] = heap[state.v].f[k]
           /\ facade'.cachedEnhancedStore = lastOp'.val
           /\ facade'.lastRawState = state
      /\ (lastOp'.op = "setDeep" /\ lastOp'.threw) =>
           /\ state' = state
           /\ facade' = facade
      /\ (lastOp'.op \in {"setDeep", "setState"} /\ state' # state) =>
           facade.lastRawState # state'
    ]_vars

C17_Witness ==
  /\ lastOp.op = "getState"
  /\ lastOp.flag
  /\ nOps = MaxOps
  /\ state # Ref(RootAddr)
  /\ lastOp.val # Ref(RootAddr)
  /\ heap[lastOp.val.v].f[K("counter")] = Num(7)

(***************************************************************************)
(* C18: getNestedValue(c, p), called after setNestedValue(c, p, v) on a    *)
(* fresh clone c of the state, returns v, for every valid path p and       *)
(* value v.                                                                *)
(***************************************************************************)
C18_GetAfterSetReturnsValue ==
  [][ (lastOp.op = "setNestedValue" /\ lastOp'.op = "getNestedValue") =>
        /\ ~lastOp'.threw
        /\ ObjectIs(lastOp'.val, lastOp.val) ]_vars

(***************************************************************************)
(* C19: a successful setDeep("items.2.x", v) on a state whose items array  *)
(* has at most 2 elements leaves an array of at least 3 elements with      *)
(* items[2].x = v, the skipped slots undefined and the elements that were  *)
(* there before unchanged.                                                 *)
(***************************************************************************)
ItemsOf(h, st) ==
  At(h, st, <<"items">>)

C19_SetBeyondLengthGrowsArray ==
  ( /\ lastOp.op = "setDeep"
    /\ ~lastOp.threw
    /\ lastOp.path = P_items_2_x
    /\ IsArray(heap, ItemsOf(heap, lastOp.prev))
    /\ Len(heap[ItemsOf(heap, lastOp.prev).v].e) <= 2 ) =>
      /\ IsArray(heap, ItemsOf(heap, state))
      /\ LET old == heap[ItemsOf(heap, lastOp.prev).v].e
             new == heap[ItemsOf(heap, state).v].e
         IN /\ Len(new) >= 3
            /\ ObjectIs(At(heap, state, P_items_2_x), lastOp.val)
            /\ \A i \in (Len(old) + 1)..2 : new[i] = Undef
            /\ \A i \in 1..Len(old) : DeepEq(heap, new[i], heap, old[i])

C19_Witness ==
  /\ lastOp.op = "setDeep"
  /\ ~lastOp.threw
  /\ lastOp.path = P_items_2_x
  /\ nOps = 2
  /\ Len(heap[ItemsOf(heap, lastOp.prev).v].e) = 1
  /\ Len(heap[ItemsOf(heap, state).v].e) = 3
  /\ heap[ItemsOf(heap, state).v].e[2] = Undef
  /\ At(heap, state, P_items_2_x) = Num(7)
  /\ At(heap, state, P_items_0_x) = Num(2)

(***************************************************************************)
(* C20: with persist enabled a successful setDeep writes nothing and       *)
(* leaves one save timer, due 100 ms later, for the state it produced;     *)
(* storage is written only by that timer, hence not before 100 ms have     *)
(* passed since the last setDeep, the save writes the fields of the state  *)
(* of the last setDeep, and no further save runs until the next setDeep.   *)
(***************************************************************************)
SavedAs(h1, saved, h2, st) ==
  \* the storage holds every top-level field of st
  \A k \in DOMAIN h2[st.v].f :
    k \in DOMAIN saved /\ DeepEq(h1, saved[k], h2, h2[st.v].f[k])

C20_OneSaveAfterBurst ==
  [][ /\ (lastOp'.op = "setDeep" /\ ~lastOp'.threw) =>
           /\ storage' = storage
           /\ persistTimer' = Timer(now + 100, state')
      /\ storage' # storage => lastOp'.op = "persistFire"
      /\ lastOp'.op = "persistFire" =>
           /\ Len(trail.states) > 1
           /\ now >= trail.wrote.time + 100
           /\ SavedAs(heap', storage', heap, trail.wrote.state)
           /\ ~persistTimer'.on
      /\ (~persistTimer.on /\ persistTimer'.on) =>
           (lastOp'.op = "setDeep" /\ ~lastOp'.threw)
    ]_vars

C20_Witness ==
  /\ lastOp.op = "persistFire"
  /\ Len(trail.states) = 3
  /\ trail.wrote.time = StartTime + TickMs
  /\ now = trail.wrote.time + 2 * TickMs
  /\ storage # EmptyFields
  /\ storage[K("counter")] = Num(7)
  /\ At(heap, storage[K("user")], <<"age">>) = Num(7)

(***************************************************************************)
(* C21: destroy() leaves no save timer and no capture timer pending, and   *)
(* from then until the next successful setDeep nothing is written to       *)
(* storage and no capture is committed.                                    *)
(***************************************************************************)
C21_DestroyCancelsTimers ==
  [][ /\ lastOp'.op = "destroy" =>
           /\ ~persistTimer'.on
           /\ ~pendingCapture'.on
           /\ storage' = storage
      /\ (trail.quiet /\ lastOp'.op # "setDeep") =>
           /\ storage' = storage
           /\ <<past, future, currentState>>' = <<past, future, currentState>>
           /\ lastOp'.op \notin {"persistFire", "captureFire"}
    ]_vars

C21_Witness ==
  /\ trail.quiet
  /\ lastOp.op = "tick"
  /\ Len(trail.states) = 3
  /\ trail.wrote.time = StartTime
  /\ now >= StartTime + 2 * TickMs
  /\ storage = EmptyFields
  /\ past = <<>>
  /\ currentState # state

(***************************************************************************)
(* C22: async actions resume in any order; each of their calls             *)
(* setDeep("counter", prev => prev + 1) reads the state left by the call   *)
(* made last, whichever action made it, and raises counter by one, so      *)
(* after N such calls counter is N above its initial value 0.              *)
(***************************************************************************)
C22_InterleavedIncrementsAllCount ==
  [][ lastOp'.op = "setDeep" =>
        /\ ~lastOp'.threw
        /\ lastOp'.prev = state
        /\ At(heap', state', P_counter) =
             Num(At(heap, state, P_counter).v + 1)
        /\ At(heap', state', P_counter) = Num(Len(trail'.states) - 1)
        /\ Len(trail'.states) = Len(trail.states) + 1 ]_vars

C22_Witness ==
  /\ lastOp.op = "setDeep"
  /\ Len(trail.states) = 3
  /\ At(heap, state, P_counter) = Num(2)
  /\ Len(inflight) = 1
  /\ inflight[1].left = 1
  /\ inflight[1].saw # Ref(RootAddr)

(***************************************************************************)
(* C23: when listeners or callbacks throw, setDeep and setState still      *)
(* return normally, the canonical state is the new state, every            *)
(* subscribed global listener is invoked once, and every callback of a     *)
(* path whose value changed is invoked once.                               *)
(***************************************************************************)
C23_ThrowingListenerIsContained ==
  (lastOp.op \in {"setDeep", "setState"} /\ lastOp.next # lastOp.prev) =>
    /\ ~lastOp.threw
    /\ state = lastOp.next
    /\ \A i \in 1..Len(listeners) :
         GlobalCallsOf(calls, listeners[i])
           = << GlobalCall(listeners[i], state, lastOp.prev) >>
    /\ \A callback \in cfg.callbacks :
         ( /\ Watching(P_user_age, callback)
           /\ ~ObjectIs(At(heap, lastOp.prev, P_user_age),
                        At(heap, state, P_user_age)) ) =>
             Len(PathCallsOf(calls, P_user_age, callback)) = 1

C23_Witness ==
  /\ lastOp.op = "setDeep"
  /\ lastOp.path = P_user_age
  /\ listeners = <<1, 2>>
  /\ Watching(P_user_age, 1)
  /\ Watching(P_user_age, 2)
  /\ Len(calls) = 4
  /\ \E i \in 1..Len(calls) : Throws(calls[i])

(***************************************************************************)
(* C24: the segment list the parse cache holds for a path string is        *)
(* always the list obtained by splitting the string on ".", whatever       *)
(* getNestedValue and setNestedValue calls have been made.                 *)
(***************************************************************************)
C24_CachedSegmentsNeverModified ==
  \A i \in 1..Len(pathCache) : pathCache[i].parts = Split(pathCache[i].key)

(***************************************************************************)
(* C25: a setDeep or setState that replaces the state while no batch       *)
(* callback is executing invokes every global listener before it returns,  *)
(* also when a batch callback has returned and its flush has not yet run.  *)
(***************************************************************************)
C25_DeferredOnlyInsideBatchScope ==
  [][ (IsWrite(lastOp') /\ state' # state /\ batchStack = <<>>) =>
        SelectSeq(calls', IsGlobalCall)
          = [i \in 1..Len(listeners) |->
               GlobalCall(listeners[i], state', state)] ]_vars

(***************************************************************************)
(* C26: a callback subscribed on a path is invoked by a setDeep only if    *)
(* the data at that path is different afterwards; a setDeep on a path      *)
(* that is neither inside nor above the watched path does not invoke it,   *)
(* also when the watched value is an object or an array.                   *)
(***************************************************************************)
C26_PathCallbackOnlyOnRealChange ==
  (lastOp.op = "setDeep" /\ ~lastOp.threw) =>
    \A watched \in cfg.watch, callback \in cfg.callbacks :
      /\ PathCallsOf(calls, watched, callback) # <<>> =>
           ~DeepEq(heap, At(heap, lastOp.prev, watched),
                   heap, At(heap, state, watched))
      /\ Unrelated(watched, lastOp.path) =>
           PathCallsOf(calls, watched, callback) = <<>>

(***************************************************************************)
(* C27: a capture requested less than captureInterval after the last       *)
(* committed capture commits nothing and becomes the one pending capture,  *)
(* in place of any other; nothing else changes the pending capture until   *)
(* its timer runs, not before captureInterval has passed since the         *)
(* request, and that run commits one entry, for the state of the latest    *)
(* deferred request.                                                       *)
(***************************************************************************)
IsDeferred ==
  \* the step is a successful setDeep whose capture falls within the interval
  /\ lastOp'.op = "setDeep"
  /\ ~lastOp'.threw
  /\ now - lastCaptureTime < cfg.captureInterval

C27_CaptureIsTrailingDebounced ==
  [][ /\ IsDeferred =>
           /\ pendingCapture' = Timer(now + cfg.captureInterval, state')
           /\ <<past, future, currentState, lastCaptureTime>>'
                = <<past, future, currentState, lastCaptureTime>>
      /\ pendingCapture' # pendingCapture =>
           IsDeferred \/ lastOp'.op = "captureFire"
      /\ lastOp'.op = "captureFire" =>
           /\ pendingCapture.on
           /\ now >= pendingCapture.due
           /\ ~pendingCapture'.on
           /\ DeepEq(heap', currentState', heap, pendingCapture.st)
           /\ Len(past') <= Len(past) + 1
           /\ past'[Len(past')] = Snapshot(currentState, lastCaptureTime)
    ]_vars

C27_Witness ==
  /\ lastOp.op = "captureFire"
  /\ Len(trail.states) = 4
  /\ trail.states[3] # trail.states[4]
  /\ DeepEq(heap, currentState, heap, trail.states[4])
  /\ Len(past) = 2
  /\ DeepEq(heap, past[2].state, heap, trail.states[2])
  /\ now = trail.wrote.time + cfg.captureInterval
  /\ trail.wrote.time = StartTime + TickMs

(***************************************************************************)
(* C28: after a successful setDeep, every container on the path that did   *)
(* not exist before is an array if the segment following it parses as an   *)
(* integer and an object otherwise, the container holding the final        *)
(* segment included.                                                       *)
(***************************************************************************)
C28_ContainerKindFollowsNextSegment ==
  (lastOp.op = "setDeep" /\ ~lastOp.threw) =>
    LET segs == Split(lastOp.path)
    IN \A k \in 1..(Len(segs) - 1) :
         LET container == Join(SubSeq(segs, 1, k))
         IN IsNullish(At(heap, lastOp.prev, container)) =>
              /\ IsRef(At(heap, state, container))
              /\ IsArray(heap, At(heap, state, container))
                   <=> ~ParseInt(segs[k + 1]).nan

(***************************************************************************)
(* C29: deleteDeep(path) returns true only if path named an existing       *)
(* entry (an own key of an existing object, or an index within an existing *)
(* array), and when it did not, deleteDeep returns false, the canonical    *)
(* state stays the same object and no listener is invoked.                 *)
(***************************************************************************)
Resolves(h, st, path) ==
  \* path names an existing entry of st
  LET segs == Split(path)
      last == segs[Len(segs)]
      parent == IF Len(segs) = 1 THEN st
                ELSE At(h, st, Join(SubSeq(segs, 1, Len(segs) - 1)))
  IN /\ IsRef(parent)
     /\ IF IsArray(h, parent)
        THEN ~ParseInt(last).nan /\ ParseInt(last).n < Len(h[parent.v].e)
        ELSE HasOwn(h, parent.v, last)

C29_DeleteDeepFalseUnlessRemoved ==
  [][ (lastOp'.op = "deleteDeep" /\ ~lastOp'.threw) =>
        /\ lastOp'.flag => Resolves(heap, state, lastOp'.path)
        /\ ~Resolves(heap, state, lastOp'.path) =>
             /\ ~lastOp'.flag
             /\ state' = state
             /\ calls' = <<>> ]_vars

(***************************************************************************)
(* C30: for every path that has a subscription, getNestedValue accepts the *)
(* path on the current state and returns the value that the notification   *)
(* step reads for it.                                                      *)
(***************************************************************************)
C30_SubscriptionsResolveLikeGet ==
  \A i \in 1..Len(pathListeners) :
    LET path == pathListeners[i].path
        got == GetNestedValue(heap, pathCache, state, path)
    IN /\ ~got.threw
       /\ ObjectIs(GetPathValue(heap, state, path), got.val)

(***************************************************************************)
(* C31: with middleware [m1, ..., mn] in the options, setDeep runs the     *)
(* chain composed left to right on the mutated clone (m1's pre-logic runs  *)
(* first and its post-logic last) and installs the chain's output as the   *)
(* new canonical state.                                                    *)
(***************************************************************************)
StepOn(kind, n) ==
  \* one piece of middleware logic on the counter; -1 stands for a throw
  CASE n < 0 -> -1
    [] kind = "double" -> 2 * n
    [] kind = "inc" -> n + 1
    [] kind = "limit" -> IF n > 4 THEN -1 ELSE n
    [] OTHER -> n

RECURSIVE Wrapped(_, _, _)
Wrapped(mws, i, n) ==
  \* m_i wraps m_(i+1) ... wraps m_n, run on counter n
  IF n < 0 \/ i > Len(mws) THEN n
  ELSE StepOn(mws[i].post, Wrapped(mws, i + 1, StepOn(mws[i].pre, n)))

CounterAt(h, st) ==
  h[st.v].f[K("counter")].v

MutatedCounter(op, h, st) ==
  \* the counter of the clone that setDeep hands to the chain
  IF op.path = P_counter THEN op.val.v ELSE CounterAt(h, st)

C31_ChainRunsLeftToRight ==
  [][ (/\ lastOp'.op = "setDeep"
       /\ ~lastOp'.threw
       /\ cfg.middleware # <<>>) =>
        /\ state' = lastOp'.next
        /\ CounterAt(heap', state')
             = Wrapped(cfg.middleware, 1,
                       MutatedCounter(lastOp', heap, state)) ]_vars

C31_Witness ==
  /\ lastOp.op = "setDeep"
  /\ ~lastOp.threw
  /\ Len(cfg.middleware) = 2
  /\ lastOp.path = P_counter
  /\ lastOp.val = Num(1)
  /\ CounterAt(heap, state) = 5

(***************************************************************************)
(* C32: an exception thrown inside a user middleware during setDeep is     *)
(* logged at the store boundary and rethrown: it reaches the caller of     *)
(* setDeep, and the store is left as it was (same canonical state, no      *)
(* listener invoked, no capture and no save scheduled).  As stated, with   *)
(* the exception not propagating, the property is C32_MiddlewareThrowIs-   *)
(* Swallowed.                                                              *)
(***************************************************************************)
ChainInput(op, h, st) ==
  \* the counter handed to the chain by an increment of the counter or by a
  \* write elsewhere
  IF op.path = P_counter THEN CounterAt(h, st) + 1 ELSE CounterAt(h, st)

MiddlewareThrows(op, h, st) ==
  /\ op.op = "setDeep"
  /\ op.path = P_counter => op.arg = "inc"
  /\ Wrapped(cfg.middleware, 1, ChainInput(op, h, st)) < 0

C40_PluginMiddlewareInChain ==
  [][ (/\ lastOp'.op = "setDeep"
       /\ ~lastOp'.threw
       /\ cfg.plugins # <<>>) =>
        CounterAt(heap', state')
          = Wrapped(cfg.middleware, 1,
                    MutatedCounter(lastOp', heap, state)) ]_vars

(***************************************************************************)
(* C33: the canonical state is replaced wholesale and never mutated in     *)
(* place: no operation (setDeep, setState, deleteDeep, undo, redo) changes *)
(* the contents of an object reachable from an earlier canonical state.    *)
(***************************************************************************)
C33_CanonicalObjectsNeverMutated ==
  [][ \A a \in Reach(heap, state.v) : heap'[a] = heap[a] ]_vars

(***************************************************************************)
(* C34: whenever no capture timer is pending, the current snapshot of the  *)
(* history manager is deep-equal to the canonical state, after any         *)
(* sequence of setDeep calls, capture-timer firings, undo, redo and clear  *)
(* (jump is a loop of undo or redo calls).                                 *)
(***************************************************************************)
C34_SnapshotFollowsState ==
  (cfg.history /\ ~pendingCapture.on) =>
    DeepEq(heap, currentState, heap, state)

(***************************************************************************)
(* C38: clear() empties both stacks and leaves the canonical state alone,  *)
(* and the stacks then stay empty (canUndo() and canRedo() false) until    *)
(* the next setDeep: no capture requested before clear() adds an entry     *)
(* afterwards.                                                             *)
(***************************************************************************)
C38_ClearedUntilNextSetDeep ==
  [][ /\ lastOp'.op = "clear" =>
        past' = <<>> /\ future' = <<>> /\ state' = state
      /\ (past = <<>> /\ future = <<>> /\ lastOp'.op # "setDeep") =>
           past' = <<>> /\ future' = <<>> ]_vars

(***************************************************************************)
(* C37: calling an unsubscribe function a second time has no effect: it    *)
(* removes no listener and no path entry, so it never silences another     *)
(* subscription, also not one registered on the same path after the first  *)
(* call.                                                                   *)
(***************************************************************************)
IsRepeatedUnsubscribe(op, before, after) ==
  \* the closure that was called had been called before
  op.op = "unsubscribe" /\ after = before

C37_SecondUnsubscribeIsNoOp ==
  [][ IsRepeatedUnsubscribe(lastOp', closures, closures') =>
        UNCHANGED <<listeners, pathListeners, cbSets>> ]_vars

(***************************************************************************)
(* C35: every global listener observes the state changes in the order in   *)
(* which they became canonical, each from the state it saw last, and the   *)
(* last newState it received is getState() once the outermost setDeep has  *)
(* returned, also when a listener calls setDeep from inside a              *)
(* notification.                                                           *)
(***************************************************************************)
C35_ListenersSeeChangesInOrder ==
  (lastOp.op = "setDeep" /\ ~lastOp.threw) =>
    \A l \in cfg.listeners :
      LET seen == GlobalCallsOf(calls, l)
      IN seen # <<>> =>
           /\ seen[1].b = lastOp.prev
           /\ \A i \in 1..(Len(seen) - 1) : seen[i + 1].b = seen[i].a
           /\ seen[Len(seen)].a = state

(***************************************************************************)
(* C36: a setDeep applied before the load has resolved is not overwritten  *)
(* by hydration: once hydration and every pending save have completed, the *)
(* value in memory at the written path is the value setDeep wrote, and the *)
(* field stored for it equals the field in memory.                         *)
(***************************************************************************)
TopField(path) ==
  Split(path)[1]

C36_EarlyWriteSurvivesHydration ==
  (/\ loading.phase = "done"
   /\ ~persistTimer.on
   /\ Len(trail.states) = 2
   /\ trail.early = trail.wrote) =>
    LET field == TopField(trail.early.path)
    IN /\ At(heap, state, trail.early.path) = trail.early.val
       /\ field \in DOMAIN storage
       /\ DeepEq(heap, storage[field], heap, heap[state.v].f[field])

(***************************************************************************)
(* C39: every notification queued by a batch is eventually delivered,      *)
(* exactly once.  Whenever the batch flag is set and no batch callback is  *)
(* executing, a flush timer is scheduled; its firing delivers all queued   *)
(* notifications to every listener in queue order and takes them off the   *)
(* queue, and leaves the flag clear and the queue empty unless a listener  *)
(* called batch during the flush, which queues its own notification under  *)
(* a new timer.  This holds also when the batch callback throws.           *)
(***************************************************************************)
FlagHasTimer ==
  (batchQueue.pending /\ batchStack = <<>>) => flushTimers # {}

FlushDelivers ==
  lastOp'.op = "flush" =>
    /\ \A l \in cfg.listeners :
         (\E j \in 1..Len(listeners) : listeners[j] = l) =>
           LET seen == GlobalCallsOf(calls', l)
           IN /\ Len(seen) = Len(batchQueue.updates)
              /\ \A i \in 1..Len(seen) :
                   /\ seen[i].a = batchQueue.updates[i].next
                   /\ seen[i].b = batchQueue.updates[i].prev
    /\ \A i \in 1..Len(batchQueue.updates) :
         \A k \in 1..Len(batchQueue'.updates) :
           batchQueue'.updates[k] # batchQueue.updates[i]
    /\ IF batchQueue'.pending
       THEN /\ flushTimers' # {}
            /\ \E j \in 1..Len(listeners) : listeners[j] \in cfg.batchers
       ELSE batchQueue'.updates = <<>>

C39_QueuedIsDeliveredOnce ==
  /\ []FlagHasTimer
  /\ [][FlushDelivers]_vars
  /\ \/ []<><<lastOp'.op = "flush">>_vars
     \/ <>[](batchQueue.updates = <<>>)

C39_Witness ==
  /\ lastOp.op = "flush"
  /\ batchQueue.pending
  /\ Len(batchQueue.updates) = 1
  /\ Len(calls) >= 2

====
